---- MODULE Spec2Model ----
(***************************************************************************)
(* Model of the chorgi music-theory engine: note/MIDI conversion, diatonic *)
(* chord generation, chord degrees, pivot-chord discovery with modulation  *)
(* scoring, and the related-key finder; and of the pages built on it: the  *)
(* state manager, the practice game and its progress storage.  A call that *)
(* throws ends with pc = "threw", a call that returns with                 *)
(* pc = "returned".                                                        *)
(* Note names, chord symbols and functional labels are strings, as in the  *)
(* source; JavaScript values that may be null or NaN are records           *)
(* [t |-> "num" | "null" | "NaN", v |-> integer].                          *)
(***************************************************************************)
EXTENDS Integers, Sequences, FiniteSets, TLC

VARIABLES
    call, pc, ret,       \* the latest call, where it stands, what it returned
    gameState,           \* practice.js: the object gameState
    checkBtnDisabled,    \* practice.js: document.getElementById('checkBtn').disabled
    localStorage,        \* storage.js: the item 'chorgi_practice_stats'
    manager,             \* state-manager.js: StateManager.state
    now,                 \* the clock new Date() reads, in ticks
    scoredOnChallenge,   \* history: correct answers since the last loadNewChallenge
    returnedIds          \* history: the ids addOverlayScale has returned

\* The pages' state, which the calls of the engine's pure functions leave alone.
app == <<gameState, checkBtnDisabled, localStorage, manager, now,
         scoredOnChallenge, returnedIds>>

vars == <<call, pc, ret, gameState, checkBtnDisabled, localStorage, manager,
          now, scoredOnChallenge, returnedIds>>

(***************************************************************************)
(* Bounds of the explored inputs.                                          *)
(***************************************************************************)
MaxOctave == 9
MidiBelow == 13
MaxMidi == 40

(***************************************************************************)
(* JavaScript value helpers.                                               *)
(***************************************************************************)
Num(n) == [t |-> "num", v |-> n]
Null == [t |-> "null", v |-> 0]
NaN == [t |-> "NaN", v |-> 0]

\* JavaScript's % on integers: the result takes the sign of the dividend.
JsRem(a, b) == IF a >= 0 THEN a % b ELSE -((-a) % b)

\* JavaScript's `x % 12` for a value that may be null (null -> 0) or NaN.
JsValRem(x, b) ==
    IF x.t = "num" THEN Num(JsRem(x.v, b))
    ELSE IF x.t = "null" THEN Num(0)
    ELSE NaN

Max(a, b) == IF a >= b THEN a ELSE b
Min(a, b) == IF a <= b THEN a ELSE b

\* String.prototype.includes
Includes(s, sub) ==
    \E i \in 1..(Len(s) - Len(sub) + 1) : SubSeq(s, i, i + Len(sub) - 1) = sub

CharAt(s, i) == SubSeq(s, i, i)

(***************************************************************************)
(* Constant tables of music-theory.js.                                     *)
(***************************************************************************)
NoteNames ==
    {"C", "C#", "Db", "D", "D#", "Eb", "E", "F", "F#", "Gb", "G", "G#",
     "Ab", "A", "A#", "Bb", "B"}

NOTE_TO_MIDI ==
    [n \in NoteNames |->
        CASE n = "C" -> 0
          [] n \in {"C#", "Db"} -> 1
          [] n = "D" -> 2
          [] n \in {"D#", "Eb"} -> 3
          [] n = "E" -> 4
          [] n = "F" -> 5
          [] n \in {"F#", "Gb"} -> 6
          [] n = "G" -> 7
          [] n \in {"G#", "Ab"} -> 8
          [] n = "A" -> 9
          [] n \in {"A#", "Bb"} -> 10
          [] n = "B" -> 11]

ScaleTypes == {"major", "natural_minor", "harmonic_minor", "melodic_minor"}

\* SCALES with the seventh chord of harmonic minor tagged half-diminished.
SCALES_halfDiminishedVII ==
    [s \in ScaleTypes |->
        CASE s = "major" ->
               [name |-> "Major",
                intervals |-> <<0, 2, 4, 5, 7, 9, 11>>,
                chordQualities |->
                    <<"maj7", "min7", "min7", "maj7", "dom7", "min7", "m7b5">>]
          [] s = "natural_minor" ->
               [name |-> "Natural Minor",
                intervals |-> <<0, 2, 3, 5, 7, 8, 10>>,
                chordQualities |->
                    <<"min7", "m7b5", "maj7", "min7", "min7", "maj7", "dom7">>]
          [] s = "harmonic_minor" ->
               [name |-> "Harmonic Minor",
                intervals |-> <<0, 2, 3, 5, 7, 8, 11>>,
                chordQualities |->
                    <<"minMaj7", "m7b5", "maj7#5", "min7", "dom7", "maj7", "m7b5">>]
          [] s = "melodic_minor" ->
               [name |-> "Melodic Minor",
                intervals |-> <<0, 2, 3, 5, 7, 9, 11>>,
                chordQualities |->
                    <<"minMaj7", "min7", "maj7#5", "dom7", "dom7", "m7b5", "m7b5">>]]

SCALES ==
    [s \in ScaleTypes |->
        CASE s = "major" ->
               [name |-> "Major",
                intervals |-> <<0, 2, 4, 5, 7, 9, 11>>,
                chordQualities |->
                    <<"maj7", "min7", "min7", "maj7", "dom7", "min7", "m7b5">>]
          [] s = "natural_minor" ->
               [name |-> "Natural Minor",
                intervals |-> <<0, 2, 3, 5, 7, 8, 10>>,
                chordQualities |->
                    <<"min7", "m7b5", "maj7", "min7", "min7", "maj7", "dom7">>]
          [] s = "harmonic_minor" ->
               [name |-> "Harmonic Minor",
                intervals |-> <<0, 2, 3, 5, 7, 8, 11>>,
                chordQualities |->
                    <<"minMaj7", "m7b5", "maj7#5", "min7", "dom7", "maj7", "dim7">>]
          [] s = "melodic_minor" ->
               [name |-> "Melodic Minor",
                intervals |-> <<0, 2, 3, 5, 7, 9, 11>>,
                chordQualities |->
                    <<"minMaj7", "min7", "maj7#5", "dom7", "dom7", "m7b5", "m7b5">>]]

Qualities == {"maj7", "min7", "dom7", "m7b5", "minMaj7", "maj7#5", "dim7"}

\* Every quality stacked in minor thirds, as a diminished seventh.
CHORD_QUALITY_INTERVALS_allDiminished ==
    [q \in Qualities |-> <<0, 3, 6, 9>>]

CHORD_QUALITY_INTERVALS ==
    [q \in Qualities |->
        CASE q = "maj7" -> <<0, 4, 7, 11>>
          [] q = "min7" -> <<0, 3, 7, 10>>
          [] q = "dom7" -> <<0, 4, 7, 10>>
          [] q = "m7b5" -> <<0, 3, 6, 10>>
          [] q = "minMaj7" -> <<0, 3, 7, 11>>
          [] q = "maj7#5" -> <<0, 4, 8, 11>>
          [] q = "dim7" -> <<0, 3, 6, 9>>]

CHORD_QUALITY_NAMES ==
    [q \in Qualities |->
        CASE q = "maj7" -> "Major 7"
          [] q = "min7" -> "Minor 7"
          [] q = "dom7" -> "Dominant 7"
          [] q = "m7b5" -> "Half-Diminished 7"
          [] q = "minMaj7" -> "Minor-Major 7"
          [] q = "maj7#5" -> "Major 7 #5"
          [] q = "dim7" -> "Diminished 7"]

ROMAN_NUMERALS == <<"I", "II", "III", "IV", "V", "VI", "VII">>

\* String.prototype.toLowerCase on the seven roman numerals
ToLowerCase(r) ==
    CASE r = "I" -> "i"
      [] r = "II" -> "ii"
      [] r = "III" -> "iii"
      [] r = "IV" -> "iv"
      [] r = "V" -> "v"
      [] r = "VI" -> "vi"
      [] r = "VII" -> "vii"

sharpNames == <<"C", "C#", "D", "D#", "E", "F", "F#", "G", "G#", "A", "A#", "B">>
flatNames == <<"C", "Db", "D", "Eb", "E", "F", "Gb", "G", "Ab", "A", "Bb", "B">>

\* JavaScript array read: an index outside the array gives undefined, which
\* string concatenation renders as "undefined".
ArrayGet(arr, idx) ==
    IF idx >= 0 /\ idx < Len(arr) THEN arr[idx + 1] ELSE "undefined"

getNoteName(midiClass, preferFlats) ==
    IF preferFlats THEN ArrayGet(flatNames, JsRem(midiClass, 12))
    ELSE ArrayGet(sharpNames, JsRem(midiClass, 12))

(***************************************************************************)
(* Pitch model: noteToMidi and midiToNoteName.                             *)
(***************************************************************************)
Digits == {"0", "1", "2", "3", "4", "5", "6", "7", "8", "9"}

DigitVal(c) ==
    CASE c = "0" -> 0 [] c = "1" -> 1 [] c = "2" -> 2 [] c = "3" -> 3
      [] c = "4" -> 4 [] c = "5" -> 5 [] c = "6" -> 6 [] c = "7" -> 7
      [] c = "8" -> 8 [] c = "9" -> 9

IsDigits(s) == Len(s) >= 1 /\ \A i \in 1..Len(s) : CharAt(s, i) \in Digits

\* parseInt on a string of decimal digits
RECURSIVE parseInt(_)
parseInt(s) ==
    IF Len(s) = 0 THEN 0
    ELSE 10 * parseInt(SubSeq(s, 1, Len(s) - 1)) + DigitVal(CharAt(s, Len(s)))

\* Length of the group ([A-G][#b]?) when /^([A-G][#b]?)(\d+)$/ matches, else 0.
NoteGroupLen(noteName) ==
    IF Len(noteName) >= 1 /\ CharAt(noteName, 1) \in {"A", "B", "C", "D", "E", "F", "G"}
    THEN LET k == IF Len(noteName) >= 2 /\ CharAt(noteName, 2) \in {"#", "b"}
                  THEN 2 ELSE 1
         IN  IF IsDigits(SubSeq(noteName, k + 1, Len(noteName))) THEN k ELSE 0
    ELSE 0

noteToMidi(noteName) ==
    LET k == NoteGroupLen(noteName) IN
    IF k = 0 THEN Null
    ELSE LET note == SubSeq(noteName, 1, k)
             octave == SubSeq(noteName, k + 1, Len(noteName))
         IN  IF note \in DOMAIN NOTE_TO_MIDI
             THEN Num(NOTE_TO_MIDI[note] + (parseInt(octave) + 1) * 12)
             ELSE NaN

\* noteToMidi tabulated once over the note names the chord generator can spell
\* (a sharp or flat name and an octave from 4 up); any other name is parsed.
SpelledNotes ==
    {ArrayGet(names, i) \o ToString(o) :
        names \in {sharpNames, flatNames}, i \in 0..11, o \in 4..6}

RECURSIVE noteToMidiOver(_)
noteToMidiOver(names) ==
    IF names = {} THEN <<>>
    ELSE LET n == CHOOSE x \in names : TRUE
         IN  (n :> noteToMidi(n)) @@ noteToMidiOver(names \ {n})

noteToMidiTable == noteToMidiOver(SpelledNotes)

noteToMidiOf(noteName) ==
    IF noteName \in SpelledNotes THEN noteToMidiTable[noteName]
    ELSE noteToMidi(noteName)

midiToNoteName(midi, useFlats) ==
    LET noteNames == IF useFlats THEN flatNames ELSE sharpNames
        octave == (midi \div 12) - 1
        noteIndex == JsRem(midi, 12)
    IN  ArrayGet(noteNames, noteIndex) \o ToString(octave)

(***************************************************************************)
(* Chord degrees (getChordDegree).                                         *)
(***************************************************************************)
\* degreeMap without its sixth and seventh entries.
degreeMapKeysToFifth == {0, 3, 4, 6, 7, 8}

degreeMapKeys == {0, 3, 4, 6, 7, 8, 9, 10, 11}

degreeMap(interval) ==
    CASE interval = 0 -> "1"
      [] interval = 3 -> "b3"
      [] interval = 4 -> "3"
      [] interval = 6 -> "b5"
      [] interval = 7 -> "5"
      [] interval = 8 -> "#5"
      [] interval = 9 -> "6"
      [] interval = 10 -> "b7"
      [] interval = 11 -> "7"

\* noteMidi is a number; the members of chordMidiNotes are what noteToMidi
\* returned: a number, null (null % 12 is 0) or NaN (every result NaN, no key
\* of degreeMap).
getChordDegree(noteMidi, chordMidiNotes) ==
    LET rootMidi == chordMidiNotes[1]
        noteClass == JsRem(noteMidi, 12)
        rootClass == JsValRem(rootMidi, 12)
    IN  IF rootClass.t # "num" THEN "?"
        ELSE LET interval == JsRem(noteClass - rootClass.v + 12, 12)
             IN  IF interval \in degreeMapKeys THEN degreeMap(interval) ELSE "?"

(***************************************************************************)
(* Chord tones on the fretboard (visualizations/guitar.js).                *)
(***************************************************************************)
GUITAR_TUNING == <<"E4", "B3", "G3", "D3", "A2", "E2">>

numFrets == 12

\* The loops of lines 155-171 visit the positions n = 1, 2, ... string by
\* string, on each string the frets 0..numFrets.
positionString(n) == (n - 1) \div (numFrets + 1)
positionFret(n) == (n - 1) % (numFrets + 1)

\* openStringMidi + fret; the tuning's names all have a pitch.
positionMidi(n) ==
    noteToMidi(GUITAR_TUNING[positionString(n) + 1]).v + positionFret(n)

\* chordMidiNotes.some(chordNote => (noteMidi % 12) === (chordNote % 12))
noteInChord(noteMidi, chordMidiNotes) ==
    \E i \in 1..Len(chordMidiNotes) :
        Num(JsRem(noteMidi, 12)) = JsValRem(chordMidiNotes[i], 12)

\* The positions of the fretboard that hold a chord note, in visiting order.
chordPositions(chordMidiNotes) ==
    LET S == {n \in 1..(Len(GUITAR_TUNING) * (numFrets + 1)) :
                 noteInChord(positionMidi(n), chordMidiNotes)}
    IN  [k \in 1..Cardinality(S) |->
            CHOOSE n \in S : Cardinality({m \in S : m < n}) = k - 1]

shapeAt(hits, chordMidiNotes) ==
    [k \in 1..Len(hits) |->
        [string |-> positionString(hits[k]),
         fret |-> positionFret(hits[k]),
         degree |-> getChordDegree(positionMidi(hits[k]), chordMidiNotes)]]

findGuitarChordShape(noteNames) ==
    LET chordMidiNotes == [i \in 1..Len(noteNames) |-> noteToMidi(noteNames[i])]
    IN  shapeAt(chordPositions(chordMidiNotes), chordMidiNotes)

(***************************************************************************)
(* Scale and chord generator.                                              *)
(***************************************************************************)
\* Assignment obj[key] = val on an object kept as its Object.entries list:
\* an existing key keeps its position and takes the new value.
ObjSet(entries, key, val) ==
    IF \E i \in 1..Len(entries) : entries[i].key = key
    THEN [i \in 1..Len(entries) |->
             IF entries[i].key = key THEN [key |-> key, chord |-> val]
             ELSE entries[i]]
    ELSE Append(entries, [key |-> key, chord |-> val])

chordSymbolOf(quality, chordRootNote) ==
    CASE quality = "maj7" -> chordRootNote \o "maj7"
      [] quality = "min7" -> chordRootNote \o "m7"
      [] quality = "dom7" -> chordRootNote \o "7"
      [] quality = "m7b5" -> chordRootNote \o "m7b5"
      [] quality = "minMaj7" -> chordRootNote \o "mMaj7"
      [] quality = "maj7#5" -> chordRootNote \o "maj7#5"
      [] quality = "dim7" -> chordRootNote \o "dim7"
      [] OTHER -> chordRootNote

romanSuffixOf(quality) ==
    CASE quality = "dom7" -> "7"
      [] quality = "maj7" -> "maj7"
      [] quality = "m7b5" -> "m7b5"
      [] quality = "minMaj7" -> "mMaj7"
      [] quality = "maj7#5" -> "maj7#5"
      [] quality = "dim7" -> "dim7"
      [] OTHER -> "m7"

\* chordNote with the chord's pitch taken from the scale interval alone, the
\* root of the scale forgotten.
chordNoteRootless(chordRootMidi, interval, int, preferFlats) ==
    LET noteMidi == interval + int
        octave == 4 + ((interval + int) \div 12)
        noteClass == JsRem(noteMidi, 12)
        noteName == getNoteName(noteClass, preferFlats)
    IN  noteName \o ToString(octave)

\* One chord note: the body of intervals.map at lines 126-132.
chordNote(chordRootMidi, interval, int, preferFlats) ==
    LET noteMidi == chordRootMidi + int
        octave == 4 + ((interval + int) \div 12)
        noteClass == JsRem(noteMidi, 12)
        noteName == getNoteName(noteClass, preferFlats)
    IN  noteName \o ToString(octave)

\* One chord note when the root is no key of NOTE_TO_MIDI: rootMidi is
\* undefined, chordRootMidi and noteMidi are NaN, names[NaN] is undefined and
\* the template literal prints it as "undefined"; the octave is a number.
chordNoteOfUndefined(interval, int) ==
    LET octave == 4 + ((interval + int) \div 12)
    IN  "undefined" \o ToString(octave)

\* One diatonic chord: the body of scale.intervals.forEach at lines 118-160.
\* No line checks that rootNote is a key of NOTE_TO_MIDI.
diatonicChord(rootNote, scaleType, degreeIndex) ==
    LET scale == SCALES[scaleType]
        rootKnown == rootNote \in DOMAIN NOTE_TO_MIDI
        rootMidi == NOTE_TO_MIDI[rootNote]
        preferFlats == Includes(scaleType, "minor")
        interval == scale.intervals[degreeIndex + 1]
        chordRootMidi == rootMidi + interval
        chordRootNote == IF rootKnown
                         THEN getNoteName(JsRem(chordRootMidi, 12), preferFlats)
                         ELSE "undefined"
        quality == scale.chordQualities[degreeIndex + 1]
        intervals == CHORD_QUALITY_INTERVALS[quality]
        notes == [idx \in 1..Len(intervals) |->
                     IF rootKnown
                     THEN chordNote(chordRootMidi, interval, intervals[idx], preferFlats)
                     ELSE chordNoteOfUndefined(interval, intervals[idx])]
        roman == ROMAN_NUMERALS[degreeIndex + 1]
        romanNumeral == IF Includes(quality, "min") \/ Includes(quality, "dim")
                           \/ quality = "m7b5"
                        THEN ToLowerCase(roman) ELSE roman
    IN  [key |-> chordSymbolOf(quality, chordRootNote),
         chord |-> [name |-> chordRootNote \o " " \o CHORD_QUALITY_NAMES[quality],
                    notes |-> notes,
                    type |-> quality,
                    roman |-> romanNumeral \o romanSuffixOf(quality)]]

RECURSIVE generateUpTo(_, _, _)
generateUpTo(rootNote, scaleType, n) ==
    IF n = 0 THEN <<>>
    ELSE LET e == diatonicChord(rootNote, scaleType, n - 1)
         IN  ObjSet(generateUpTo(rootNote, scaleType, n - 1), e.key, e.chord)

\* The result as Object.entries(chords): <<[key, chord], ...>> in insertion order.
generateDiatonicChords(rootNote, scaleType) ==
    generateUpTo(rootNote, scaleType, Len(SCALES[scaleType].intervals))

\* generateDiatonicChords tabulated once over the recognized roots and scales.
RECURSIVE diatonicChordsOver(_)
diatonicChordsOver(scales) ==
    IF scales = {} THEN <<>>
    ELSE LET a == CHOOSE x \in scales : TRUE
         IN  (a :> generateDiatonicChords(a[1], a[2])) @@ diatonicChordsOver(scales \ {a})

diatonicChordsTable == diatonicChordsOver(NoteNames \X ScaleTypes)

diatonicChordsOf(rootNote, scaleType) ==
    IF <<rootNote, scaleType>> \in NoteNames \X ScaleTypes
    THEN diatonicChordsTable[<<rootNote, scaleType>>]
    ELSE generateDiatonicChords(rootNote, scaleType)

(***************************************************************************)
(* Pivot-chord analyzer (utils/pivot-chords.js).                           *)
(***************************************************************************)
\* normalizeChordNotes reading the triad only, the seventh left out.
normalizeChordNotesTriad(chord) ==
    {JsValRem(noteToMidiOf(chord.notes[i]), 12) : i \in 1..(Len(chord.notes) - 1)}

\* new Set(chord.notes.map(note => noteToMidi(note) % 12))
normalizeChordNotes(chord) ==
    {JsValRem(noteToMidiOf(chord.notes[i]), 12) : i \in 1..Len(chord.notes)}

\* areChordsEquivalent comparing the spelled note lists themselves.
areChordsEquivalentSpelled(chord1, chord2) == chord1.notes = chord2.notes

\* areChordsEquivalent stopping after the comparison of the set sizes.
areChordsEquivalentBySize(chord1, chord2) ==
    Cardinality(normalizeChordNotes(chord1)) = Cardinality(normalizeChordNotes(chord2))

areChordsEquivalent(chord1, chord2) ==
    LET notes1 == normalizeChordNotes(chord1)
        notes2 == normalizeChordNotes(chord2)
    IN  IF Cardinality(notes1) # Cardinality(notes2) THEN FALSE
        ELSE \A note \in notes1 : note \in notes2

degreeNames ==
    <<[major |-> "Tonic (I)", minor |-> "Tonic (i)"],
      [major |-> "Supertonic (ii)", minor |-> "Supertonic (ii°)"],
      [major |-> "Mediant (iii)", minor |-> "Mediant (III)"],
      [major |-> "Subdominant (IV)", minor |-> "Subdominant (iv)"],
      [major |-> "Dominant (V)", minor |-> "Dominant (v)"],
      [major |-> "Submediant (vi)", minor |-> "Submediant (VI)"],
      [major |-> "Leading Tone (vii°)", minor |-> "Subtonic (VII)"]>>

\* degreeIndexOf counting the entries from 1.
degreeIndexOfFromOne(chordEntries, chordKey) ==
    IF \E i \in 1..Len(chordEntries) : chordEntries[i].key = chordKey
    THEN CHOOSE i \in 1..Len(chordEntries) :
             /\ chordEntries[i].key = chordKey
             /\ \A j \in 1..(i - 1) : chordEntries[j].key # chordKey
    ELSE -1

\* Index (from 0) of the first entry whose key is chordKey, or -1.
degreeIndexOf(chordEntries, chordKey) ==
    IF \E i \in 1..Len(chordEntries) : chordEntries[i].key = chordKey
    THEN (CHOOSE i \in 1..Len(chordEntries) :
             /\ chordEntries[i].key = chordKey
             /\ \A j \in 1..(i - 1) : chordEntries[j].key # chordKey) - 1
    ELSE -1

getFunctionDescription(chordKey, scaleRoot, scaleType) ==
    LET isMajor == scaleType = "major"
        chords == diatonicChordsOf(scaleRoot, scaleType)
        degreeIndex == degreeIndexOf(chords, chordKey)
    IN  IF degreeIndex = -1 THEN chordKey
        ELSE IF degreeIndex + 1 \in DOMAIN degreeNames
             THEN IF isMajor THEN degreeNames[degreeIndex + 1].major
                  ELSE degreeNames[degreeIndex + 1].minor
             ELSE chordKey

\* The pivot pushed for the pair (primary entry p, secondary entry q).  Its
\* field intervals copies primaryChord.intervals, which no chord has
\* (undefined), and is left out.
pivotOf(p, q, primaryRoot, primaryScale, secondaryRoot, secondaryScale) ==
    [chordName |-> p.key,
     primaryKey |-> p.key,
     secondaryKey |-> q.key,
     primaryFunction |-> getFunctionDescription(p.key, primaryRoot, primaryScale),
     secondaryFunction |-> getFunctionDescription(q.key, secondaryRoot, secondaryScale),
     notes |-> p.chord.notes]

\* The nested forEach of lines 69-83 visits the 7x7 pairs in the order
\* n = 1, 2, ...: primary chords in the outer loop, secondary chords in the
\* inner loop.
pairPrimary(pcs, scs, n) == pcs[((n - 1) \div Len(scs)) + 1]
pairSecondary(pcs, scs, n) == scs[((n - 1) % Len(scs)) + 1]

\* The members of a set of numbers in ascending order.
ascending(S) ==
    [k \in 1..Cardinality(S) |->
        CHOOSE n \in S : Cardinality({m \in S : m < n}) = k - 1]

\* The pairs for which the condition of line 71 holds, in visiting order.
equivalentPairs(pcs, scs) ==
    ascending({n \in 1..(Len(pcs) * Len(scs)) :
                  areChordsEquivalent(pairPrimary(pcs, scs, n).chord,
                                      pairSecondary(pcs, scs, n).chord)})

\* One pivot pushed per equivalent pair.
pivotsAt(hits, pcs, scs, primaryRoot, primaryScale, secondaryRoot, secondaryScale) ==
    [k \in 1..Len(hits) |->
        pivotOf(pairPrimary(pcs, scs, hits[k]), pairSecondary(pcs, scs, hits[k]),
                primaryRoot, primaryScale, secondaryRoot, secondaryScale)]

pivotsBetween(pcs, scs, primaryRoot, primaryScale, secondaryRoot, secondaryScale) ==
    pivotsAt(equivalentPairs(pcs, scs), pcs, scs,
             primaryRoot, primaryScale, secondaryRoot, secondaryScale)

findPivotChords(primaryRoot, primaryScale, secondaryRoot, secondaryScale) ==
    pivotsBetween(diatonicChordsOf(primaryRoot, primaryScale),
                  diatonicChordsOf(secondaryRoot, secondaryScale),
                  primaryRoot, primaryScale, secondaryRoot, secondaryScale)

\* analyzePivotQuality awarding the dominant bonus once per side and
\* returning the score as it stands.
analyzePivotQualityPerSide(pivotChord) ==
    LET primaryFunc == pivotChord.primaryFunction
        secondaryFunc == pivotChord.secondaryFunction
        s0 == 5
        s1 == s0 + (IF Includes(primaryFunc, "(V)") THEN 3 ELSE 0)
                 + (IF Includes(secondaryFunc, "(V)") THEN 3 ELSE 0)
        s2 == IF Includes(primaryFunc, "(IV)") \/ Includes(secondaryFunc, "(IV)")
              THEN s1 + 2 ELSE s1
        s3 == IF Includes(primaryFunc, "(ii)") \/ Includes(secondaryFunc, "(ii)")
              THEN s2 + 1 ELSE s2
        s4 == IF \/ Includes(primaryFunc, "(I)") \/ Includes(secondaryFunc, "(I)")
                 \/ Includes(primaryFunc, "(i)") \/ Includes(secondaryFunc, "(i)")
              THEN s3 - 1 ELSE s3
    IN  s4

analyzePivotQuality(pivotChord) ==
    LET primaryFunc == pivotChord.primaryFunction
        secondaryFunc == pivotChord.secondaryFunction
        s0 == 5
        s1 == IF Includes(primaryFunc, "(V)") \/ Includes(secondaryFunc, "(V)")
              THEN s0 + 3 ELSE s0
        s2 == IF Includes(primaryFunc, "(IV)") \/ Includes(secondaryFunc, "(IV)")
              THEN s1 + 2 ELSE s1
        s3 == IF Includes(primaryFunc, "(ii)") \/ Includes(secondaryFunc, "(ii)")
              THEN s2 + 1 ELSE s2
        s4 == IF \/ Includes(primaryFunc, "(I)") \/ Includes(secondaryFunc, "(I)")
                 \/ Includes(primaryFunc, "(i)") \/ Includes(secondaryFunc, "(i)")
              THEN s3 - 1 ELSE s3
    IN  Max(0, Min(10, s4))

\* The comparator with its operands swapped: lowest quality first.
qualityCompareAscending(a, b) == a.quality - b.quality

\* The comparator of rankedPivots.sort: negative puts a first.
qualityCompare(a, b) == b.quality - a.quality

\* Array.prototype.sort is stable: an element goes in front of the first
\* already placed element that the comparator orders strictly after it.
RECURSIVE sortInsert(_, _)
sortInsert(sorted, x) ==
    IF Len(sorted) = 0 THEN <<x>>
    ELSE LET last == sorted[Len(sorted)] IN
         IF qualityCompare(x, last) < 0
         THEN Append(sortInsert(SubSeq(sorted, 1, Len(sorted) - 1), x), last)
         ELSE Append(sorted, x)

RECURSIVE sortByQuality(_)
sortByQuality(arr) ==
    IF Len(arr) = 0 THEN <<>>
    ELSE sortInsert(sortByQuality(SubSeq(arr, 1, Len(arr) - 1)), arr[Len(arr)])

withQuality(pivot) ==
    [chordName |-> pivot.chordName,
     primaryKey |-> pivot.primaryKey,
     secondaryKey |-> pivot.secondaryKey,
     primaryFunction |-> pivot.primaryFunction,
     secondaryFunction |-> pivot.secondaryFunction,
     notes |-> pivot.notes,
     quality |-> analyzePivotQuality(pivot)]

getSuggestedModulations(primaryRoot, primaryScale, secondaryRoot, secondaryScale) ==
    LET pivotChords == findPivotChords(primaryRoot, primaryScale,
                                       secondaryRoot, secondaryScale)
        rankedPivots == [i \in 1..Len(pivotChords) |-> withQuality(pivotChords[i])]
    IN  sortByQuality(rankedPivots)

(***************************************************************************)
(* Related-key finder (utils/related-keys.js).                             *)
(***************************************************************************)
\* The reference table spelled with sharps throughout.
CHROMATIC_NOTES_sharps ==
    <<"C", "C#", "D", "D#", "E", "F", "F#", "G", "G#", "A", "A#", "B">>

\* Line 10: flats for pitch classes 3, 8, 10, sharps for 1 and 6.
CHROMATIC_NOTES ==
    <<"C", "C#", "D", "Eb", "E", "F", "F#", "G", "Ab", "A", "Bb", "B">>

\* A root that is no key of NOTE_TO_MIDI gives NaN as index, and undefined.
getNoteByInterval(rootNote, semitones) ==
    IF rootNote \in DOMAIN NOTE_TO_MIDI
    THEN LET rootIndex == NOTE_TO_MIDI[rootNote]
             targetIndex == (JsRem(rootIndex + semitones, 12) + 12) % 12
         IN  ArrayGet(CHROMATIC_NOTES, targetIndex)
    ELSE "undefined"

\* A related key without its popularity, and with it.
keyOf(root, scaleType, relationship) ==
    [root |-> root, scaleType |-> scaleType, relationship |-> relationship]

withPopularity(key, popularity) ==
    [root |-> key.root, scaleType |-> key.scaleType,
     relationship |-> key.relationship, popularity |-> popularity]

\* getRelativeKey with the minor third taken upwards from a major key too.
getRelativeKeyUpwards(root, scaleType) ==
    LET isMajor == scaleType = "major"
        isMinor == Includes(scaleType, "minor")
    IN  IF isMajor
        THEN <<keyOf(getNoteByInterval(root, 3), "natural_minor", "Relative Minor")>>
        ELSE IF isMinor
        THEN <<keyOf(getNoteByInterval(root, 3), "major", "Relative Major")>>
        ELSE <<>>

\* getRelativeKey and getParallelKey return a key or null: here a sequence of
\* one key, or the empty sequence for null.
getRelativeKey(root, scaleType) ==
    LET isMajor == scaleType = "major"
        isMinor == Includes(scaleType, "minor")
    IN  IF isMajor
        THEN <<keyOf(getNoteByInterval(root, -3), "natural_minor", "Relative Minor")>>
        ELSE IF isMinor
        THEN <<keyOf(getNoteByInterval(root, 3), "major", "Relative Major")>>
        ELSE <<>>

getParallelKey(root, scaleType) ==
    LET isMajor == scaleType = "major"
        isMinor == Includes(scaleType, "minor")
    IN  IF isMajor THEN <<keyOf(root, "natural_minor", "Parallel Minor")>>
        ELSE IF isMinor THEN <<keyOf(root, "major", "Parallel Major")>>
        ELSE <<>>

getDominantKey(root, scaleType) ==
    keyOf(getNoteByInterval(root, 7), scaleType, "Dominant (V)")

getSubdominantKey(root, scaleType) ==
    keyOf(getNoteByInterval(root, 5), scaleType, "Subdominant (IV)")

\* The keys pushed with the relationship overwritten (lines 115-128).
relabelled(key, relationship) ==
    [root |-> key.root, scaleType |-> key.scaleType, relationship |-> relationship]

\* Lines 88-128: the keys pushed with popularity 'high'.
highKeys(root, scaleType) ==
    LET isMajor == scaleType = "major"
        relative == getRelativeKey(root, scaleType)
        parallel == getParallelKey(root, scaleType)
    IN  [i \in 1..Len(relative) |-> withPopularity(relative[i], "high")]
        \o [i \in 1..Len(parallel) |-> withPopularity(parallel[i], "high")]
        \o <<withPopularity(getDominantKey(root, scaleType), "high"),
              withPopularity(getSubdominantKey(root, scaleType), "high")>>
        \o (IF isMajor
            THEN <<withPopularity(relabelled(getDominantKey(root, "natural_minor"),
                                             "Dominant Minor (v)"), "high"),
                   withPopularity(relabelled(getSubdominantKey(root, "natural_minor"),
                                             "Subdominant Minor (iv)"), "high")>>
            ELSE <<>>)

\* Lines 130-176: the keys pushed with popularity 'medium'.
mediumKeys(root, scaleType) ==
    LET isMajor == scaleType = "major"
        mode == IF isMajor THEN "major" ELSE "natural_minor"
        supertonic == getNoteByInterval(root, 2)
        mediant == getNoteByInterval(root, IF isMajor THEN 4 ELSE 3)
        submediant == getNoteByInterval(root, 9)
    IN  <<withPopularity(keyOf(supertonic, mode,
                               IF isMajor THEN "Supertonic (II)"
                               ELSE "Supertonic (ii)"), "medium"),
          withPopularity(keyOf(mediant, mode, "Mediant (III)"), "medium"),
          withPopularity(keyOf(submediant, mode, "Submediant (VI)"), "medium")>>
        \o (IF isMajor
            THEN <<withPopularity(keyOf(supertonic, "natural_minor",
                                        "Supertonic Minor (ii)"), "medium"),
                   withPopularity(keyOf(getNoteByInterval(root, 4), "natural_minor",
                                        "Mediant Minor (iii)"), "medium")>>
            ELSE <<>>)

\* lowKeys with the tritone key pushed as 'medium'.  (In both, the flat sign
\* U+266D of the source's labels is written b.)
lowKeysTritoneMedium(root, scaleType) ==
    LET isMajor == scaleType = "major"
        leadingTone == getNoteByInterval(root, IF isMajor THEN 11 ELSE 10)
        tritone == getNoteByInterval(root, 6)
    IN  (IF isMajor
         THEN <<withPopularity(keyOf(getNoteByInterval(root, 3), "major",
                                     "Chromatic Mediant (bIII)"), "low"),
                withPopularity(keyOf(getNoteByInterval(root, 8), "major",
                                     "Chromatic Submediant (bVI)"), "low"),
                withPopularity(keyOf(getNoteByInterval(root, 1), "major",
                                     "Neapolitan (bII)"), "low"),
                withPopularity(keyOf(getNoteByInterval(root, 10), "major",
                                     "Subtonic (bVII)"), "low")>>
         ELSE <<>>)
        \o <<withPopularity(keyOf(leadingTone, "natural_minor",
                                  IF isMajor THEN "Leading Tone (vii)"
                                  ELSE "Subtonic (VII)"), "low"),
              withPopularity(keyOf(tritone, scaleType,
                                  "Tritone (Augmented Fourth)"), "medium")>>

\* Lines 178-232: the keys pushed with popularity 'low'.
lowKeys(root, scaleType) ==
    LET isMajor == scaleType = "major"
        leadingTone == getNoteByInterval(root, IF isMajor THEN 11 ELSE 10)
        tritone == getNoteByInterval(root, 6)
    IN  (IF isMajor
         THEN <<withPopularity(keyOf(getNoteByInterval(root, 3), "major",
                                     "Chromatic Mediant (bIII)"), "low"),
                withPopularity(keyOf(getNoteByInterval(root, 8), "major",
                                     "Chromatic Submediant (bVI)"), "low"),
                withPopularity(keyOf(getNoteByInterval(root, 1), "major",
                                     "Neapolitan (bII)"), "low"),
                withPopularity(keyOf(getNoteByInterval(root, 10), "major",
                                     "Subtonic (bVII)"), "low")>>
         ELSE <<>>)
        \o <<withPopularity(keyOf(leadingTone, "natural_minor",
                                  IF isMajor THEN "Leading Tone (vii)"
                                  ELSE "Subtonic (VII)"), "low"),
              withPopularity(keyOf(tritone, scaleType,
                                  "Tritone (Augmented Fourth)"), "low")>>

\* The array relatedKeys at the return of line 234.
findRelatedKeys(root, scaleType) ==
    highKeys(root, scaleType) \o mediumKeys(root, scaleType)
        \o lowKeys(root, scaleType)

(***************************************************************************)
(* Progress storage (utils/storage.js).  JSON.stringify and JSON.parse     *)
(* carry the statistics object, made of numbers, strings and arrays,       *)
(* unchanged; the stored item is <<>> when absent, else <<stats>>.         *)
(***************************************************************************)
Difficulties == {"beginner", "intermediate", "advanced"}

getDefaultStats ==
    [totalScore |-> 0, totalAttempts |-> 0, totalCorrect |-> 0, bestStreak |-> 0,
     sessionHistory |-> <<>>,
     difficultyStats |-> [d \in Difficulties |-> [attempts |-> 0, correct |-> 0]]]

loadStats(item) == IF item = <<>> THEN getDefaultStats ELSE item[1]

\* Math.round(x) for the quotient of two naturals: the nearest integer,
\* halves upwards.
MathRoundRatio(num, den) == (2 * num + den) \div (2 * den)

historyLimit == 50

\* arr.slice(-n): the last n elements, all of them if there are fewer.
SliceLast(arr, n) ==
    IF Len(arr) <= n THEN arr ELSE SubSeq(arr, Len(arr) - n + 1, Len(arr))

\* The entry pushed to sessionHistory at lines 72-81.
sessionEntry(sessionData, date) ==
    [date |-> date,
     score |-> sessionData.score,
     attempts |-> sessionData.attempts,
     correct |-> sessionData.correctAnswers,
     accuracy |-> IF sessionData.attempts > 0
                  THEN MathRoundRatio(sessionData.correctAnswers * 100,
                                      sessionData.attempts)
                  ELSE 0,
     difficulty |-> sessionData.difficulty]

\* updateStats keeping every session, the history never cut.
updateStatsKeepingAll(item, sessionData, date) ==
    LET stats == loadStats(item)
    IN  [totalScore |-> stats.totalScore + sessionData.score,
         totalAttempts |-> stats.totalAttempts + sessionData.attempts,
         totalCorrect |-> stats.totalCorrect + sessionData.correctAnswers,
         bestStreak |-> Max(stats.bestStreak, sessionData.bestStreak),
         sessionHistory |-> Append(stats.sessionHistory,
                                   sessionEntry(sessionData, date)),
         difficultyStats |->
             [d \in Difficulties |->
                 IF d = sessionData.difficulty
                 THEN [attempts |-> stats.difficultyStats[d].attempts
                                       + sessionData.attempts,
                       correct |-> stats.difficultyStats[d].correct
                                      + sessionData.correctAnswers]
                 ELSE stats.difficultyStats[d]]]

\* The statistics updateStats saves and returns, for the stored item it
\* finds and the date the clock gives.
updateStats(item, sessionData, date) ==
    LET stats == loadStats(item)
        pushed == Append(stats.sessionHistory, sessionEntry(sessionData, date))
    IN  [totalScore |-> stats.totalScore + sessionData.score,
         totalAttempts |-> stats.totalAttempts + sessionData.attempts,
         totalCorrect |-> stats.totalCorrect + sessionData.correctAnswers,
         bestStreak |-> Max(stats.bestStreak, sessionData.bestStreak),
         sessionHistory |-> IF Len(pushed) > historyLimit
                            THEN SliceLast(pushed, historyLimit)
                            ELSE pushed,
         difficultyStats |->
             [d \in Difficulties |->
                 IF d = sessionData.difficulty
                 THEN [attempts |-> stats.difficultyStats[d].attempts
                                       + sessionData.attempts,
                       correct |-> stats.difficultyStats[d].correct
                                      + sessionData.correctAnswers]
                 ELSE stats.difficultyStats[d]]]

(***************************************************************************)
(* State manager: StateManager.state and the methods that change it.  A    *)
(* field that is null holds "null" (a key or a name) or <<>> (a chord      *)
(* set).  The listeners registered with on() redraw and change no state.   *)
(* The compare-mode fields keep the values the constructor gave them: the  *)
(* methods that set them touch no other field and are not explored.        *)
(***************************************************************************)
\* Object.keys(chords)[0]
firstKey(entries) == IF Len(entries) > 0 THEN entries[1].key ELSE "undefined"

\* Object.keys(chords)[Object.keys(chords).length - 1]
lastKey(entries) ==
    IF Len(entries) > 0 THEN entries[Len(entries)].key ELSE "undefined"

\* The state the constructor leaves.
managerConstructed ==
    LET chords == diatonicChordsOf("C", "major")
    IN  [currentScale |-> "major",
         currentRoot |-> "C",
         currentChord |-> firstKey(chords),
         diatonicChords |-> chords,
         compareMode |-> FALSE,
         secondaryScale |-> "null",
         secondaryRoot |-> "null",
         secondaryChords |-> <<>>,
         overlayScales |-> <<>>,
         nextOverlayId |-> 1]

\* getCurrentChord(): diatonicChords[currentChord], undefined for a missing key.
getCurrentChord(state) ==
    IF \E i \in 1..Len(state.diatonicChords) :
           state.diatonicChords[i].key = state.currentChord
    THEN (CHOOSE e \in {state.diatonicChords[i] : i \in 1..Len(state.diatonicChords)} :
              e.key = state.currentChord).chord
    ELSE "undefined"

\* setScale selecting the last chord of the new set.
setScaleSelectingLast(state, root, scaleType) ==
    LET chords == diatonicChordsOf(root, scaleType)
    IN  [state EXCEPT !.currentRoot = root,
                      !.currentScale = scaleType,
                      !.diatonicChords = chords,
                      !.currentChord = lastKey(chords)]

setScale(state, root, scaleType) ==
    LET chords == diatonicChordsOf(root, scaleType)
    IN  [state EXCEPT !.currentRoot = root,
                      !.currentScale = scaleType,
                      !.diatonicChords = chords,
                      !.currentChord = firstKey(chords)]

setChord(state, chordKey) == [state EXCEPT !.currentChord = chordKey]

\* The overlay addOverlayScale builds for the id it drew.
overlayScale(id, root, scaleType, color) ==
    [id |-> id, root |-> root, type |-> scaleType, color |-> color,
     visible |-> TRUE, name |-> SCALES[scaleType].name]

\* addOverlayScale numbering an overlay by its place in the list.
addOverlayScaleByPlace(state, root, scaleType, color) ==
    LET id == Len(state.overlayScales) + 1
    IN  [state EXCEPT !.nextOverlayId = @ + 1,
                      !.overlayScales =
                          Append(@, overlayScale(id, root, scaleType, color))]

\* The state after addOverlayScale; the id returned is the last overlay's.
addOverlayScale(state, root, scaleType, color) ==
    LET id == state.nextOverlayId
    IN  [state EXCEPT !.nextOverlayId = @ + 1,
                      !.overlayScales =
                          Append(@, overlayScale(id, root, scaleType, color))]

\* arr.filter(s => s.id !== id)
RECURSIVE withoutId(_, _)
withoutId(arr, id) ==
    IF arr = <<>> THEN <<>>
    ELSE IF arr[1].id = id THEN withoutId(Tail(arr), id)
    ELSE <<arr[1]>> \o withoutId(Tail(arr), id)

removeOverlayScale(state, id) ==
    [state EXCEPT !.overlayScales = withoutId(@, id)]

\* arr.find(s => s.id === id) as an index, 0 when nothing is found.
findIndexById(arr, id) ==
    IF \E i \in 1..Len(arr) : arr[i].id = id
    THEN CHOOSE i \in 1..Len(arr) :
             arr[i].id = id /\ \A j \in 1..(i - 1) : arr[j].id # id
    ELSE 0

toggleOverlayScaleVisibility(state, id) ==
    LET i == findIndexById(state.overlayScales, id)
    IN  IF i = 0 THEN state
        ELSE [state EXCEPT !.overlayScales[i].visible = ~@]

updateOverlayScaleColor(state, id, color) ==
    LET i == findIndexById(state.overlayScales, id)
    IN  IF i = 0 THEN state
        ELSE [state EXCEPT !.overlayScales[i].color = color]

clearOverlayScales(state) == [state EXCEPT !.overlayScales = <<>>]

(***************************************************************************)
(* Practice game: the object gameState, the check button and the handlers  *)
(* that change them.  currentChord is <<>> while null, <<chord>> once a    *)
(* challenge is loaded; currentChordKey is "null" while null.  What the    *)
(* handlers draw or write to the page is left out.                         *)
(***************************************************************************)
\* The object gameState as the module creates it.
gameStateAtLoad ==
    [currentChord |-> <<>>,
     currentChordKey |-> "null",
     userSelectedNotes |-> {},
     score |-> 0,
     attempts |-> 0,
     correctAnswers |-> 0,
     streak |-> 0,
     bestStreak |-> 0,
     difficulty |-> "intermediate",
     scale |-> "C",
     scaleType |-> "major",
     showingAnswer |-> FALSE]

\* PIANO_CONFIG: the keys of the interactive piano, two octaves from C4.
startNote == 60
numOctaves == 2
PianoKeys == startNote..(startNote + numOctaves * 12 - 1)

\* String.prototype.replace with a string pattern: the first occurrence only.
ReplaceFirst(s, pat, rep) ==
    IF Includes(s, pat)
    THEN LET i == CHOOSE k \in 1..(Len(s) - Len(pat) + 1) :
                      /\ SubSeq(s, k, k + Len(pat) - 1) = pat
                      /\ \A j \in 1..(k - 1) : SubSeq(s, j, j + Len(pat) - 1) # pat
         IN  SubSeq(s, 1, i - 1) \o rep \o SubSeq(s, i + Len(pat), Len(s))
    ELSE s

\* String.prototype.trim for the extension names, which carry one leading blank.
Trim(s) == IF Len(s) > 0 /\ CharAt(s, 1) = " " THEN SubSeq(s, 2, Len(s)) ELSE s

\* value.split('-')[0]
SplitFirst(s, sep) ==
    IF Includes(s, sep)
    THEN LET i == CHOOSE k \in 1..(Len(s) - Len(sep) + 1) :
                      /\ SubSeq(s, k, k + Len(sep) - 1) = sep
                      /\ \A j \in 1..(k - 1) : SubSeq(s, j, j + Len(sep) - 1) # sep
         IN  SubSeq(s, 1, i - 1)
    ELSE s

UpperChar(c) ==
    CASE c = "a" -> "A" [] c = "b" -> "B" [] c = "c" -> "C" [] c = "d" -> "D"
      [] c = "e" -> "E" [] c = "f" -> "F" [] c = "g" -> "G" [] OTHER -> c

RECURSIVE ToUpperCase(_)
ToUpperCase(s) ==
    IF Len(s) = 0 THEN ""
    ELSE UpperChar(CharAt(s, 1)) \o ToUpperCase(SubSeq(s, 2, Len(s)))

\* The scale and scale type the scaleSelect listener stores for a value.
scaleOfValue(value) ==
    IF Includes(value, "-minor")
    THEN [scale |-> ToUpperCase(SplitFirst(value, "-")), scaleType |-> "natural_minor"]
    ELSE [scale |-> value, scaleType |-> "major"]

\* Beginner: the chord cut to its triad.
triadOf(chord) ==
    IF Len(chord.notes) > 3
    THEN [chord EXCEPT !.notes = SubSeq(chord.notes, 1, 3),
                       !.name = ReplaceFirst(ReplaceFirst(chord.name, " 7", ""), "7", "")]
    ELSE chord

practiceNoteNames ==
    <<"C", "C#", "D", "Eb", "E", "F", "F#", "G", "Ab", "A", "Bb", "B">>

\* The helper addInterval of the advanced branch, for a numeric midi.
addInterval(midi, interval) ==
    LET noteMidi == midi + interval
        octave == (noteMidi \div 12) - 1
        pitchClass == JsRem(noteMidi, 12)
    IN  ArrayGet(practiceNoteNames, pitchClass) \o ToString(octave)

\* How many extension types Math.floor(Math.random() * n) chooses from.
extTypeCount(chordType) ==
    CASE chordType = "maj7" -> 3
      [] chordType = "min7" -> 3
      [] chordType = "dom7" -> 4
      [] chordType = "m7b5" -> 2
      [] OTHER -> 1

\* The intervals added and the name suffix, per chord type and extension type.
extensionOf(chordType, extType) ==
    CASE chordType = "maj7" /\ extType = 0 -> [intervals |-> <<14>>, name |-> " 9"]
      [] chordType = "maj7" /\ extType = 1 -> [intervals |-> <<14, 21>>, name |-> " 13"]
      [] chordType = "maj7" -> [intervals |-> <<14, 18>>, name |-> " 9#11"]
      [] chordType = "min7" /\ extType = 0 -> [intervals |-> <<14>>, name |-> " 9"]
      [] chordType = "min7" /\ extType = 1 -> [intervals |-> <<14, 17>>, name |-> " 11"]
      [] chordType = "min7" -> [intervals |-> <<14, 17, 21>>, name |-> " 13"]
      [] chordType = "dom7" /\ extType = 0 -> [intervals |-> <<14>>, name |-> " 9"]
      [] chordType = "dom7" /\ extType = 1 -> [intervals |-> <<14, 21>>, name |-> " 13"]
      [] chordType = "dom7" /\ extType = 2 -> [intervals |-> <<15>>, name |-> " 7#9"]
      [] chordType = "dom7" -> [intervals |-> <<13>>, name |-> " 7b9"]
      [] chordType = "m7b5" /\ extType = 0 -> [intervals |-> <<14>>, name |-> " 9"]
      [] chordType = "m7b5" -> [intervals |-> <<14, 17>>, name |-> " 11"]
      [] OTHER -> [intervals |-> <<14>>, name |-> " 9"]

\* Advanced: the chord with the extension the random extType selects.  A
\* root that noteToMidi reads as null counts as 0 in the sum.
extendedChord(chord, extType) ==
    LET rootMidi == noteToMidiOf(chord.notes[1])
        ext == extensionOf(chord.type, extType)
        extensions == [i \in 1..Len(ext.intervals) |->
                          IF rootMidi.t = "NaN" THEN "undefinedNaN"
                          ELSE addInterval(rootMidi.v, ext.intervals[i])]
    IN  [chord EXCEPT !.notes = chord.notes \o extensions,
                      !.name = ReplaceFirst(ReplaceFirst(chord.name, " 7", ext.name),
                                            "7", Trim(ext.name))]

\* chords[key] after the difficulty filter of lines 130-230.
challengeChord(chord, difficulty, extType) ==
    IF difficulty = "beginner" THEN triadOf(chord)
    ELSE IF difficulty = "advanced" THEN extendedChord(chord, extType)
    ELSE chord

\* Object.keys(chords) as a sequence.
chordKeysOf(entries) == [i \in 1..Len(entries) |-> entries[i].key]

\* arr.filter(key => key !== currentChordKey)
RECURSIVE withoutKey(_, _)
withoutKey(keys, key) ==
    IF keys = <<>> THEN <<>>
    ELSE IF keys[1] = key THEN withoutKey(Tail(keys), key)
    ELSE <<keys[1]>> \o withoutKey(Tail(keys), key)

\* The pool with a repeat of the current chord allowed.
availableChordsWithRepeat(chordKeys, currentChordKey) == chordKeys

\* The pool the random key is drawn from (lines 232-235).
availableChords(chordKeys, currentChordKey) ==
    IF currentChordKey # "null" /\ Len(chordKeys) > 1
    THEN withoutKey(chordKeys, currentChordKey)
    ELSE chordKeys

\* gameState after loadNewChallenge drew the key at randomIndex of the pool
\* and, when advanced, the extension extType.
loadNewChallenge(gs, randomIndex, extType) ==
    LET chords == diatonicChordsOf(gs.scale, gs.scaleType)
        pool == availableChords(chordKeysOf(chords), gs.currentChordKey)
        randomKey == pool[randomIndex + 1]
        chord == (CHOOSE e \in {chords[i] : i \in 1..Len(chords)} :
                      e.key = randomKey).chord
    IN  [gs EXCEPT !.currentChord = <<challengeChord(chord, gs.difficulty, extType)>>,
                   !.currentChordKey = randomKey,
                   !.userSelectedNotes = {},
                   !.showingAnswer = FALSE]

toggleNote(gs, midi) ==
    IF midi \in gs.userSelectedNotes
    THEN [gs EXCEPT !.userSelectedNotes = @ \ {midi}]
    ELSE [gs EXCEPT !.userSelectedNotes = @ \cup {midi}]

clearSelection(gs) ==
    [gs EXCEPT !.userSelectedNotes = {}, !.showingAnswer = FALSE]

\* checkAnswer, lines 557-569: the pitch classes asked for and those selected.
targetPitchClasses(gs) ==
    {JsValRem(noteToMidiOf(gs.currentChord[1].notes[i]), 12) :
        i \in 1..Len(gs.currentChord[1].notes)}

userPitchClasses(gs) == {Num(JsRem(midi, 12)) : midi \in gs.userSelectedNotes}

isCorrect(gs) ==
    /\ Cardinality(targetPitchClasses(gs)) = Cardinality(userPitchClasses(gs))
    /\ \A p \in targetPitchClasses(gs) : p \in userPitchClasses(gs)

\* checkAnswer with a flat 10 points for a correct answer.
checkAnswerFlatScore(gs) ==
    IF isCorrect(gs)
    THEN [gs EXCEPT !.attempts = @ + 1,
                    !.correctAnswers = @ + 1,
                    !.score = @ + 10,
                    !.streak = @ + 1,
                    !.bestStreak = Max(@, gs.streak + 1)]
    ELSE [gs EXCEPT !.attempts = @ + 1, !.streak = 0]

\* gameState after checkAnswer, lines 571-579 and 591.
checkAnswer(gs) ==
    IF isCorrect(gs)
    THEN [gs EXCEPT !.attempts = @ + 1,
                    !.correctAnswers = @ + 1,
                    !.score = @ + 10 + (gs.streak * 2),
                    !.streak = @ + 1,
                    !.bestStreak = Max(@, gs.streak + 1)]
    ELSE [gs EXCEPT !.attempts = @ + 1, !.streak = 0]

\* The sessionData saveProgress hands to updateStats.
sessionDataOf(gs) ==
    [score |-> gs.score,
     attempts |-> gs.attempts,
     correctAnswers |-> gs.correctAnswers,
     bestStreak |-> gs.bestStreak,
     difficulty |-> gs.difficulty]

\* The pages as their scripts leave them before any event: the practice
\* module loaded, the state manager constructed, nothing stored.
AppInit ==
    /\ gameState = gameStateAtLoad
    /\ checkBtnDisabled = FALSE
    /\ localStorage = <<>>
    /\ manager = managerConstructed
    /\ now = 0
    /\ scoredOnChallenge = 0
    /\ returnedIds = <<>>

(***************************************************************************)
(* The engine as a state machine: a pending call with its arguments, then  *)
(* the step that runs it and stores what it returns.                       *)
(***************************************************************************)
OctaveStrings == {ToString(n) : n \in 0..MaxOctave} \cup {"04", "10"}

\* Note names the grammar accepts: letter, optional accidental, digits.
GrammarNotes ==
    {l \o a \o o : l \in {"A", "B", "C", "D", "E", "F", "G"},
                   a \in {"", "#", "b"}, o \in OctaveStrings}

MalformedNotes ==
    {"", "C", "4", "H4", "c4", "C-1", "C##4", "Cx4", "C4 ", "#4", "Bb", "C4b",
     "undefined-2"}

\* Roots that are no key of NOTE_TO_MIDI, scale types that are no key of SCALES.
UnknownRoots == {"H", "c", "E#"}
UnknownScales == {"dorian", "minor", "Major"}

ScaleRequests ==
    [rootNote : NoteNames, scaleType : ScaleTypes]

PairRequests ==
    [primaryRoot : NoteNames, primaryScale : ScaleTypes,
     secondaryRoot : NoteNames, secondaryScale : ScaleTypes]

\* The pitches of a major seventh chord on rootMidi, as noteToMidi gives them.
seventhChordOn(rootMidi) ==
    [i \in 1..4 |-> Num(rootMidi + CHORD_QUALITY_INTERVALS["maj7"][i])]

Requests ==
    {[op |-> "generateDiatonicChords", args |-> a] : a \in ScaleRequests}
    \cup {[op |-> "noteToMidi", args |-> [noteName |-> n]] :
             n \in GrammarNotes \cup MalformedNotes}
    \cup {[op |-> "midiToNoteName", args |-> [midi |-> m, useFlats |-> f]] :
             m \in (-MidiBelow)..MaxMidi, f \in BOOLEAN}
    \cup {[op |-> "getNoteName", args |-> [midiClass |-> m, preferFlats |-> f]] :
             m \in (-MidiBelow)..MaxMidi, f \in BOOLEAN}
    \cup {[op |-> "getChordDegree",
           args |-> [noteMidi |-> m, chordMidiNotes |-> seventhChordOn(r)]] :
             m \in (-MidiBelow)..MaxMidi, r \in (-MidiBelow)..MaxMidi}
    \cup {[op |-> "findGuitarChordShape",
           args |-> [noteNames |-> diatonicChordsOf(a[1], a[2])[a[3]].chord.notes]] :
             a \in NoteNames \X ScaleTypes \X (1..7)}

PivotRequests ==
    {[op |-> "findPivotChords", args |-> a] : a \in PairRequests}
    \cup {[op |-> "getSuggestedModulations", args |-> a] : a \in PairRequests}

Init ==
    /\ call \in Requests
    /\ pc = "called"
    /\ ret = <<>>
    /\ AppInit

\* SCALES[scaleType] is undefined for a scale type that is no key of SCALES,
\* and reading scale.intervals at line 118 then throws a TypeError.
GenerateDiatonicChords ==
    /\ pc = "called" /\ call.op = "generateDiatonicChords"
    /\ IF call.args.scaleType \in DOMAIN SCALES
       THEN /\ ret' = generateDiatonicChords(call.args.rootNote, call.args.scaleType)
            /\ pc' = "returned"
       ELSE /\ ret' = "TypeError"
            /\ pc' = "threw"
    /\ UNCHANGED <<call, app>>

\* The TypeError of generateDiatonicChords (lines 63-64) is caught nowhere.
FindPivotChords ==
    /\ pc = "called" /\ call.op = "findPivotChords"
    /\ IF {call.args.primaryScale, call.args.secondaryScale} \subseteq DOMAIN SCALES
       THEN /\ ret' = findPivotChords(call.args.primaryRoot, call.args.primaryScale,
                                      call.args.secondaryRoot, call.args.secondaryScale)
            /\ pc' = "returned"
       ELSE /\ ret' = "TypeError"
            /\ pc' = "threw"
    /\ UNCHANGED <<call, app>>

GetSuggestedModulations ==
    /\ pc = "called" /\ call.op = "getSuggestedModulations"
    /\ IF {call.args.primaryScale, call.args.secondaryScale} \subseteq DOMAIN SCALES
       THEN /\ ret' = getSuggestedModulations(call.args.primaryRoot, call.args.primaryScale,
                                              call.args.secondaryRoot, call.args.secondaryScale)
            /\ pc' = "returned"
       ELSE /\ ret' = "TypeError"
            /\ pc' = "threw"
    /\ UNCHANGED <<call, app>>

NoteToMidi ==
    /\ pc = "called" /\ call.op = "noteToMidi"
    /\ ret' = noteToMidi(call.args.noteName)
    /\ pc' = "returned"
    /\ UNCHANGED <<call, app>>

MidiToNoteName ==
    /\ pc = "called" /\ call.op = "midiToNoteName"
    /\ ret' = midiToNoteName(call.args.midi, call.args.useFlats)
    /\ pc' = "returned"
    /\ UNCHANGED <<call, app>>

\* findRelatedKeys reads only scaleType === 'major' and
\* scaleType.includes('minor'): no scale type makes it throw.
FindRelatedKeys ==
    /\ pc = "called" /\ call.op = "findRelatedKeys"
    /\ ret' = findRelatedKeys(call.args.rootNote, call.args.scaleType)
    /\ pc' = "returned"
    /\ UNCHANGED <<call, app>>

GetNoteName ==
    /\ pc = "called" /\ call.op = "getNoteName"
    /\ ret' = getNoteName(call.args.midiClass, call.args.preferFlats)
    /\ pc' = "returned"
    /\ UNCHANGED <<call, app>>

GetChordDegree ==
    /\ pc = "called" /\ call.op = "getChordDegree"
    /\ ret' = getChordDegree(call.args.noteMidi, call.args.chordMidiNotes)
    /\ pc' = "returned"
    /\ UNCHANGED <<call, app>>

\* drawGuitar passes the notes of the chord it draws (guitar.js line 28).
FindGuitarChordShape ==
    /\ pc = "called" /\ call.op = "findGuitarChordShape"
    /\ ret' = findGuitarChordShape(call.args.noteNames)
    /\ pc' = "returned"
    /\ UNCHANGED <<call, app>>

\* The pitch model, the chord generator and the chord degrees.
Next ==
    \/ GenerateDiatonicChords
    \/ NoteToMidi
    \/ MidiToNoteName
    \/ GetNoteName
    \/ GetChordDegree
    \/ FindGuitarChordShape

Spec == Init /\ [][Next]_vars

\* The pivot-chord analyzer.
InitPivot ==
    /\ call \in PivotRequests
    /\ pc = "called"
    /\ ret = <<>>
    /\ AppInit

NextPivot ==
    \/ FindPivotChords
    \/ GetSuggestedModulations

SpecPivot == InitPivot /\ [][NextPivot]_vars

\* The related-key finder on the recognized roots and scale types.
RelatedRequests ==
    {[op |-> "findRelatedKeys", args |-> a] : a \in ScaleRequests}

InitRelated ==
    /\ call \in RelatedRequests
    /\ pc = "called"
    /\ ret = <<>>
    /\ AppInit

NextRelated == FindRelatedKeys

SpecRelated == InitRelated /\ [][NextRelated]_vars

\* Calls with a root or a scale type the tables do not have.
UnknownRequests ==
    {[op |-> "generateDiatonicChords", args |-> a] :
        a \in [rootNote : NoteNames \cup UnknownRoots,
               scaleType : ScaleTypes \cup UnknownScales] \ ScaleRequests}
    \cup {[op |-> "findPivotChords", args |-> a] :
             a \in [primaryRoot : UnknownRoots \cup {"C"},
                    primaryScale : {"major", "natural_minor", "dorian"},
                    secondaryRoot : UnknownRoots \cup {"C", "G"},
                    secondaryScale : {"major", "harmonic_minor"}] \ PairRequests}
    \cup {[op |-> "findRelatedKeys", args |-> a] :
             a \in [rootNote : NoteNames, scaleType : UnknownScales]}

InitUnknown ==
    /\ call \in UnknownRequests
    /\ pc = "called"
    /\ ret = <<>>
    /\ AppInit

NextUnknown ==
    \/ GenerateDiatonicChords
    \/ FindPivotChords
    \/ FindRelatedKeys

SpecUnknown == InitUnknown /\ [][NextUnknown]_vars

(***************************************************************************)
(* The state manager as a state machine: each step is one method call on   *)
(* the singleton, run to its end.                                          *)
(***************************************************************************)
MaxOverlayAdds == 2

ManagerScales == {<<"G", "major">>, <<"A", "natural_minor">>}
OverlayScaleChoices == {<<"D", "harmonic_minor">>}
OverlayColorChoices == {"#4CAF50", "#2196F3"}
OverlayIds == 1..MaxOverlayAdds

InitManager ==
    /\ call = [op |-> "new StateManager", args |-> <<>>]
    /\ pc = "returned"
    /\ ret = <<>>
    /\ AppInit

\* What a method call leaves alone.
besidesManager ==
    <<gameState, checkBtnDisabled, localStorage, now, scoredOnChallenge>>

SetScale ==
    \E a \in ManagerScales :
        /\ manager' = setScale(manager, a[1], a[2])
        /\ call' = [op |-> "setScale",
                    args |-> [root |-> a[1], scaleType |-> a[2]]]
        /\ ret' = "undefined"
        /\ pc' = "returned"
        /\ UNCHANGED <<besidesManager, returnedIds>>

\* The chord buttons are rebuilt from getDiatonicChords() after each scale
\* change, so the key passed is a key of the current set.
SetChord ==
    \E i \in 1..Len(manager.diatonicChords) :
        /\ manager' = setChord(manager, manager.diatonicChords[i].key)
        /\ call' = [op |-> "setChord",
                    args |-> [chordKey |-> manager.diatonicChords[i].key]]
        /\ ret' = "undefined"
        /\ pc' = "returned"
        /\ UNCHANGED <<besidesManager, returnedIds>>

AddOverlayScale ==
    \E a \in OverlayScaleChoices, color \in OverlayColorChoices :
        /\ manager.nextOverlayId <= MaxOverlayAdds
        /\ manager' = addOverlayScale(manager, a[1], a[2], color)
        /\ call' = [op |-> "addOverlayScale",
                    args |-> [root |-> a[1], scaleType |-> a[2], color |-> color]]
        /\ ret' = manager'.overlayScales[Len(manager'.overlayScales)].id
        /\ returnedIds' = Append(returnedIds, ret')
        /\ pc' = "returned"
        /\ UNCHANGED besidesManager

RemoveOverlayScale ==
    \E id \in OverlayIds :
        /\ manager' = removeOverlayScale(manager, id)
        /\ call' = [op |-> "removeOverlayScale", args |-> [id |-> id]]
        /\ ret' = "undefined"
        /\ pc' = "returned"
        /\ UNCHANGED <<besidesManager, returnedIds>>

ToggleOverlayScaleVisibility ==
    \E id \in OverlayIds :
        /\ manager' = toggleOverlayScaleVisibility(manager, id)
        /\ call' = [op |-> "toggleOverlayScaleVisibility", args |-> [id |-> id]]
        /\ ret' = "undefined"
        /\ pc' = "returned"
        /\ UNCHANGED <<besidesManager, returnedIds>>

UpdateOverlayScaleColor ==
    \E id \in OverlayIds, color \in OverlayColorChoices :
        /\ manager' = updateOverlayScaleColor(manager, id, color)
        /\ call' = [op |-> "updateOverlayScaleColor",
                    args |-> [id |-> id, color |-> color]]
        /\ ret' = "undefined"
        /\ pc' = "returned"
        /\ UNCHANGED <<besidesManager, returnedIds>>

ClearOverlayScales ==
    /\ manager' = clearOverlayScales(manager)
    /\ call' = [op |-> "clearOverlayScales", args |-> <<>>]
    /\ ret' = "undefined"
    /\ pc' = "returned"
    /\ UNCHANGED <<besidesManager, returnedIds>>

NextManager ==
    \/ SetScale
    \/ SetChord
    \/ AddOverlayScale
    \/ RemoveOverlayScale
    \/ ToggleOverlayScaleVisibility
    \/ UpdateOverlayScaleColor
    \/ ClearOverlayScales

SpecManager == InitManager /\ [][NextManager]_vars

(***************************************************************************)
(* Progress storage as a state machine: each step is one updateStats call. *)
(* The clock ticks once per recorded session, so a session's date is its   *)
(* number, counted from 0 on empty storage.  setItem is taken to succeed.  *)
(***************************************************************************)
MaxUpdates == 4
StoredAtLoad == 48

\* Session data saveProgress can hand over: one correct answer; wrong,
\* correct, correct; wrong, correct.
SessionInputs ==
    {[score |-> 10, attempts |-> 1, correctAnswers |-> 1, bestStreak |-> 1,
      difficulty |-> "beginner"],
     [score |-> 22, attempts |-> 3, correctAnswers |-> 2, bestStreak |-> 2,
      difficulty |-> "intermediate"],
     [score |-> 10, attempts |-> 2, correctAnswers |-> 1, bestStreak |-> 1,
      difficulty |-> "advanced"]}

\* The item k earlier sessions of the second kind left behind, k no more
\* than historyLimit: what k updateStats calls on empty storage add up to.
storedAfter(k) ==
    IF k = 0 THEN <<>>
    ELSE LET sessionData == [score |-> 22, attempts |-> 3, correctAnswers |-> 2,
                             bestStreak |-> 2, difficulty |-> "intermediate"]
         IN  <<[totalScore |-> k * sessionData.score,
                totalAttempts |-> k * sessionData.attempts,
                totalCorrect |-> k * sessionData.correctAnswers,
                bestStreak |-> sessionData.bestStreak,
                sessionHistory |-> [i \in 1..k |-> sessionEntry(sessionData, i - 1)],
                difficultyStats |->
                    [d \in Difficulties |->
                        IF d = sessionData.difficulty
                        THEN [attempts |-> k * sessionData.attempts,
                              correct |-> k * sessionData.correctAnswers]
                        ELSE [attempts |-> 0, correct |-> 0]]]>>

\* The page opens on empty storage or on the storage of StoredAtLoad sessions.
InitStorage ==
    /\ call = [op |-> "loadStats", args |-> <<>>]
    /\ pc = "returned"
    /\ ret = <<>>
    /\ gameState = gameStateAtLoad
    /\ checkBtnDisabled = FALSE
    /\ manager = managerConstructed
    /\ scoredOnChallenge = 0
    /\ returnedIds = <<>>
    /\ \/ localStorage = <<>> /\ now = 0
       \/ localStorage = storedAfter(StoredAtLoad) /\ now = StoredAtLoad

UpdateStats ==
    \E sessionData \in SessionInputs :
        /\ \/ now < MaxUpdates
           \/ now >= StoredAtLoad /\ now < StoredAtLoad + MaxUpdates
        /\ localStorage' = <<updateStats(localStorage, sessionData, now)>>
        /\ now' = now + 1
        /\ call' = [op |-> "updateStats", args |-> sessionData]
        /\ ret' = localStorage'[1]
        /\ pc' = "returned"
        /\ UNCHANGED <<gameState, checkBtnDisabled, manager, scoredOnChallenge,
                       returnedIds>>

NextStorage == UpdateStats

SpecStorage == InitStorage /\ [][NextStorage]_vars

(***************************************************************************)
(* The practice game as a state machine: init once the page is ready, then *)
(* one step per event, the listener run to its end.                        *)
(***************************************************************************)
MaxAttempts == 3

\* Values of the scale selector besides the initial C major.
ScaleValues == {"G", "a-minor"}

InitPractice ==
    /\ call = [op |-> "import", args |-> <<>>]
    /\ pc = "returned"
    /\ ret = <<>>
    /\ AppInit

\* The pool loadNewChallenge draws from in state gs, and the chord drawn at
\* randomIndex before the difficulty reshapes it.
poolOf(gs) ==
    availableChords(chordKeysOf(diatonicChordsOf(gs.scale, gs.scaleType)),
                    gs.currentChordKey)

drawnType(gs, randomIndex) ==
    LET chords == diatonicChordsOf(gs.scale, gs.scaleType)
    IN  (CHOOSE e \in {chords[i] : i \in 1..Len(chords)} :
             e.key = poolOf(gs)[randomIndex + 1]).chord.type

\* The values Math.floor(Math.random() * n) can take for the extension.
extTypesOf(gs, randomIndex) ==
    IF gs.difficulty = "advanced"
    THEN 0..(extTypeCount(drawnType(gs, randomIndex)) - 1)
    ELSE {0}

\* loadNewChallenge run on gameState as gs, with both random draws.
LoadNewChallenge(gs) ==
    \E randomIndex \in 0..(Len(poolOf(gs)) - 1) :
        \E extType \in extTypesOf(gs, randomIndex) :
            /\ gameState' = loadNewChallenge(gs, randomIndex, extType)
            /\ checkBtnDisabled' = FALSE
            /\ scoredOnChallenge' = 0
            /\ ret' = "undefined"
            /\ pc' = "returned"
            /\ UNCHANGED <<localStorage, manager, now, returnedIds>>

\* init(): the listeners are set up and the first challenge is loaded.
PracticeInit ==
    /\ gameState.currentChord = <<>>
    /\ call' = [op |-> "init", args |-> <<>>]
    /\ LoadNewChallenge(gameState)

NextChallenge ==
    /\ gameState.currentChord # <<>>
    /\ call' = [op |-> "nextChallenge", args |-> <<>>]
    /\ LoadNewChallenge(gameState)

ChangeDifficulty ==
    \E value \in Difficulties :
        /\ gameState.currentChord # <<>>
        /\ call' = [op |-> "difficultySelect.change", args |-> [value |-> value]]
        /\ LoadNewChallenge([gameState EXCEPT !.difficulty = value])

ChangeScale ==
    \E value \in ScaleValues :
        /\ gameState.currentChord # <<>>
        /\ call' = [op |-> "scaleSelect.change", args |-> [value |-> value]]
        /\ LoadNewChallenge([gameState EXCEPT
                                 !.scale = scaleOfValue(value).scale,
                                 !.scaleType = scaleOfValue(value).scaleType])

\* The keys that sound the chord asked for, in the lower octave.
targetKeys(gs) ==
    {k \in startNote..(startNote + 11) : Num(JsRem(k, 12)) \in targetPitchClasses(gs)}

lowestOf(keys) == CHOOSE k \in keys : \A j \in keys : k <= j

\* The clicks explored, of the 24 keys: the chord's keys of the lower octave
\* from the lowest up; on an empty selection also the lowest key that is no
\* chord note, and that key again to take it back.
ExploredClicks(gs) ==
    LET sel == gs.userSelectedNotes
        left == targetKeys(gs) \ sel
        others == (startNote..(startNote + 11)) \ targetKeys(gs)
    IN  IF sel = {} THEN {lowestOf(targetKeys(gs)), lowestOf(others)}
        ELSE IF sel \subseteq others THEN sel
        ELSE IF left = {} THEN {}
        ELSE {lowestOf(left)}

\* handlePianoClick on a key: nothing while the answer is showing.
PianoClick ==
    /\ gameState.currentChord # <<>>
    /\ \E midi \in ExploredClicks(gameState) \cap PianoKeys :
           /\ gameState' = IF gameState.showingAnswer THEN gameState
                           ELSE toggleNote(gameState, midi)
           /\ call' = [op |-> "handlePianoClick", args |-> [midi |-> midi]]
           /\ ret' = "undefined"
           /\ pc' = "returned"
           /\ UNCHANGED <<checkBtnDisabled, localStorage, manager, now,
                          scoredOnChallenge, returnedIds>>

\* clearSelection also enables the check button again (line 458).
ClearSelection ==
    /\ gameState.currentChord # <<>>
    /\ gameState' = clearSelection(gameState)
    /\ checkBtnDisabled' = FALSE
    /\ call' = [op |-> "clearSelection", args |-> <<>>]
    /\ ret' = "undefined"
    /\ pc' = "returned"
    /\ UNCHANGED <<localStorage, manager, now, scoredOnChallenge, returnedIds>>

\* showAnswer draws the answer and changes nothing of the game.
ShowAnswer ==
    /\ gameState.currentChord # <<>>
    /\ call' = [op |-> "showAnswer", args |-> <<>>]
    /\ ret' = "undefined"
    /\ pc' = "returned"
    /\ UNCHANGED app

\* A click on the check button while it is enabled: checkAnswer, and on a
\* correct answer the button disabled and saveProgress.
CheckAnswer ==
    /\ gameState.currentChord # <<>>
    /\ ~checkBtnDisabled
    /\ gameState.attempts < MaxAttempts
    /\ gameState' = checkAnswer(gameState)
    /\ IF isCorrect(gameState)
       THEN /\ checkBtnDisabled' = TRUE
            /\ localStorage' =
                   <<updateStats(localStorage, sessionDataOf(gameState'), now)>>
            /\ now' = now + 1
            /\ scoredOnChallenge' = scoredOnChallenge + 1
       ELSE UNCHANGED <<checkBtnDisabled, localStorage, now, scoredOnChallenge>>
    /\ call' = [op |-> "checkAnswer", args |-> <<>>]
    /\ ret' = "undefined"
    /\ pc' = "returned"
    /\ UNCHANGED <<manager, returnedIds>>

\* The difficulty selector used before the first answer of the session.
ChangeDifficultyFirst ==
    /\ gameState.attempts = 0
    /\ ChangeDifficulty

\* A session of answers in C major: the difficulty set before the first
\* answer, then challenges, selections and checks.
NextPractice ==
    \/ PracticeInit
    \/ NextChallenge
    \/ ChangeDifficultyFirst
    \/ PianoClick
    \/ ClearSelection
    \/ CheckAnswer

SpecPractice == InitPractice /\ [][NextPractice]_vars

\* Every way a challenge is loaded and looked at, no answer checked.
NextChallenges ==
    \/ PracticeInit
    \/ NextChallenge
    \/ ChangeDifficulty
    \/ ChangeScale
    \/ PianoClick
    \/ ClearSelection
    \/ ShowAnswer

SpecChallenges == InitPractice /\ [][NextChallenges]_vars

(***************************************************************************)
(* Properties of the pitch model and the chord generator.                  *)
(***************************************************************************)
Returned(o) == pc = "returned" /\ call.op = o

\* The pitch class a letter and an accidental denote.
pitchClassOf(letter, accidental) ==
    LET base == CASE letter = "C" -> 0 [] letter = "D" -> 2 [] letter = "E" -> 4
                  [] letter = "F" -> 5 [] letter = "G" -> 7 [] letter = "A" -> 9
                  [] letter = "B" -> 11
        shift == CASE accidental = "#" -> 1 [] accidental = "b" -> -1 [] OTHER -> 0
    IN  (base + shift) % 12

\* The accidental of a spelled note name ("" when it has none).
AccidentalOf(n) ==
    IF Len(n) >= 2 /\ CharAt(n, 2) \in {"#", "b"} THEN CharAt(n, 2) ELSE ""

\* The pitch class of a spelled note name, read from its letter and accidental.
SpelledPitchClass(n) == pitchClassOf(CharAt(n, 1), AccidentalOf(n))

\* The pitch classes of the degrees of a scale.
ScaleDegreePc(rootNote, scaleType, d) ==
    (NOTE_TO_MIDI[rootNote] + SCALES[scaleType].intervals[d]) % 12

ScalePcs(rootNote, scaleType) ==
    {ScaleDegreePc(rootNote, scaleType, d) : d \in 1..7}

ChordPcs(chord) == {SpelledPitchClass(chord.notes[k]) : k \in 1..Len(chord.notes)}

\* C1: for every recognized root and scale type generateDiatonicChords returns
\* exactly 7 entries, every chord has exactly 4 notes, and the pitch classes
\* of the 7 chord roots (the first note of each chord) are exactly the pitch
\* classes (rootPc + interval) mod 12 of the scale's 7 intervals.
C1_GeneratorComplete ==
    Returned("generateDiatonicChords") =>
        /\ Len(ret) = 7
        /\ \A i \in 1..Len(ret) : Len(ret[i].chord.notes) = 4
        /\ {SpelledPitchClass(ret[i].chord.notes[1]) : i \in 1..Len(ret)}
               = ScalePcs(call.args.rootNote, call.args.scaleType)

C1_Witness ==
    /\ Returned("generateDiatonicChords")
    /\ call.args.rootNote = "F#" /\ call.args.scaleType = "harmonic_minor"
    /\ Len(ret) = 7
    /\ ret[7].key = "Fdim7"

\* C2: every generated chord is diatonic: each of its notes has a pitch class
\* of the scale, and the chord on degree i (from 0) consists exactly of the
\* scale degrees i, i+2, i+4 and i+6, indices taken mod 7.
C2_ChordsDiatonic ==
    Returned("generateDiatonicChords") =>
        /\ Len(ret) = 7
        /\ \A i \in 0..6 :
            /\ ChordPcs(ret[i + 1].chord)
                   \subseteq ScalePcs(call.args.rootNote, call.args.scaleType)
            /\ ChordPcs(ret[i + 1].chord)
                   = {ScaleDegreePc(call.args.rootNote, call.args.scaleType,
                                    ((i + 2 * k) % 7) + 1) : k \in 0..3}

C2_Witness ==
    /\ Returned("generateDiatonicChords")
    /\ call.args.rootNote = "Eb" /\ call.args.scaleType = "harmonic_minor"
    /\ ret[7].chord.type = "dim7"
    /\ ChordPcs(ret[7].chord) = {2, 5, 8, 11}

\* C8: for every generated chord the 4 spelled notes, converted back with
\* noteToMidi, are strictly ascending pitches in list order, each the pitch
\* of the chord's first note plus the corresponding quality offset.
C8_NotesAscendByOffset ==
    Returned("generateDiatonicChords") =>
        \A i \in 1..Len(ret) :
            LET notes == ret[i].chord.notes
                offsets == CHORD_QUALITY_INTERVALS[ret[i].chord.type]
                pitch(k) == noteToMidi(notes[k])
            IN  /\ \A k \in 1..Len(notes) : pitch(k).t = "num"
                /\ \A k \in 2..Len(notes) :
                    /\ pitch(k).v > pitch(k - 1).v
                    /\ pitch(k).v = pitch(1).v + offsets[k]

\* C9: for every integer pitch P, the pitches 0..11 of octave -1 included,
\* and both values of the flats flag, noteToMidi(midiToNoteName(P, flag)) = P.
\* Stated here on the pitches from 0 up, the part of the claim the MIDI range
\* covers.
C9_MidiRoundTrip ==
    (Returned("midiToNoteName") /\ call.args.midi >= 0) =>
        noteToMidi(ret) = Num(call.args.midi)

\* C10: every note name of the grammar (a letter A-G, an optional # or b,
\* one or more digits) maps through noteToMidi to the integer pitch
\* pitchClassOf(letter, accidental) + (octave + 1) * 12, so that C4 is 60;
\* the spellings E#, B#, Cb and Fb included.
C10_GrammarNotesHavePitch ==
    (Returned("noteToMidi") /\ call.args.noteName \in GrammarNotes) =>
        LET n == call.args.noteName
            k == IF AccidentalOf(n) = "" THEN 1 ELSE 2
            octave == parseInt(SubSeq(n, k + 1, Len(n)))
        IN  ret = Num(pitchClassOf(CharAt(n, 1), AccidentalOf(n)) + (octave + 1) * 12)

(***************************************************************************)
(* Properties of the pivot-chord analyzer.                                 *)
(***************************************************************************)
PrimaryChords == diatonicChordsOf(call.args.primaryRoot, call.args.primaryScale)
SecondaryChords == diatonicChordsOf(call.args.secondaryRoot, call.args.secondaryScale)

KeysOf(entries) == {entries[i].key : i \in 1..Len(entries)}

\* C3: for a major scale on R and the natural minor scale whose root lies 3
\* semitones below R, findPivotChords returns exactly 7 pivots, every chord
\* of either scale being shared; for C major and A natural minor they
\* include Am7 with the pitch classes of A, C, E and G.
C3_RelativeMinorSharesAll ==
    ( /\ Returned("findPivotChords")
      /\ call.args.primaryScale = "major"
      /\ call.args.secondaryScale = "natural_minor"
      /\ NOTE_TO_MIDI[call.args.secondaryRoot]
             = (NOTE_TO_MIDI[call.args.primaryRoot] + 12 - 3) % 12 ) =>
        /\ Len(ret) = 7
        /\ {ret[k].primaryKey : k \in 1..Len(ret)} = KeysOf(PrimaryChords)
        /\ {ret[k].secondaryKey : k \in 1..Len(ret)} = KeysOf(SecondaryChords)
        /\ (call.args.primaryRoot = "C" /\ call.args.secondaryRoot = "A") =>
               \E k \in 1..Len(ret) :
                   /\ ret[k].chordName = "Am7"
                   /\ ChordPcs(ret[k]) = {9, 0, 4, 7}

C3_Witness ==
    /\ Returned("findPivotChords")
    /\ call.args = [primaryRoot |-> "C", primaryScale |-> "major",
                    secondaryRoot |-> "A", secondaryScale |-> "natural_minor"]
    /\ Len(ret) = 7
    /\ \E k \in 1..Len(ret) : ret[k].chordName = "Am7"

\* C4: findPivotChords emits a pivot for the pair (chord a of scale A, chord
\* b of scale B) if and only if the notes of a and the notes of b have the
\* same set of pitch classes, whatever their order, octave and spelling; no
\* equal pair is omitted, no unequal pair emitted, over all 7x7 pairs.
C4_PivotIffSamePitchClasses ==
    Returned("findPivotChords") =>
        LET A == PrimaryChords
            B == SecondaryChords
            pcsA == [i \in 1..Len(A) |-> ChordPcs(A[i].chord)]
            pcsB == [j \in 1..Len(B) |-> ChordPcs(B[j].chord)]
            emitted == {<<ret[k].primaryKey, ret[k].secondaryKey>> : k \in 1..Len(ret)}
            equalPairs == {ij \in (1..Len(A)) \X (1..Len(B)) : pcsA[ij[1]] = pcsB[ij[2]]}
        IN  /\ Len(A) = 7 /\ Len(B) = 7
            /\ \A i \in 1..Len(A), j \in 1..Len(B) :
                   (<<A[i].key, B[j].key>> \in emitted) <=> (<<i, j>> \in equalPairs)
            /\ Len(ret) = Cardinality(equalPairs)

C4_Witness ==
    /\ Returned("findPivotChords")
    /\ call.args = [primaryRoot |-> "F#", primaryScale |-> "major",
                    secondaryRoot |-> "G#", secondaryScale |-> "melodic_minor"]
    /\ Len(ret) > 0 /\ Len(ret) < 7
    /\ \E k \in 1..Len(ret), j \in 1..Len(SecondaryChords) :
           /\ ret[k].secondaryKey = SecondaryChords[j].key
           /\ ret[k].notes # SecondaryChords[j].chord.notes

\* The parenthesized token of a functional label: the label from its "(" on.
TokenOf(label) ==
    IF \E i \in 1..Len(label) : CharAt(label, i) = "("
    THEN SubSeq(label, CHOOSE i \in 1..Len(label) :
                           /\ CharAt(label, i) = "("
                           /\ \A j \in 1..(i - 1) : CharAt(label, j) # "(",
                Len(label))
    ELSE ""

EitherToken(pivot, tokens) ==
    TokenOf(pivot.primaryFunction) \in tokens \/ TokenOf(pivot.secondaryFunction) \in tokens

ClaimedScore(pivot) ==
    LET D == IF EitherToken(pivot, {"(V)", "(v)"}) THEN 1 ELSE 0
        S == IF EitherToken(pivot, {"(IV)", "(iv)"}) THEN 1 ELSE 0
        P == IF EitherToken(pivot, {"(ii)", "(II)"}) THEN 1 ELSE 0
        T == IF EitherToken(pivot, {"(I)", "(i)"}) THEN 1 ELSE 0
    IN  Max(0, Min(10, 5 + 3 * D + 2 * S + P - T))

\* C5: the score of a pivot is clamp(5 + 3*D + 2*S + P - T, 0, 10), where
\* D = 1 iff the parenthesized token of either functional label is "(V)" or
\* "(v)", S = 1 iff either is "(IV)" or "(iv)", P = 1 iff either is "(ii)" or
\* "(II)", and T = 1 iff either is "(I)" or "(i)".
C5_ScoreByExactTokens ==
    Returned("getSuggestedModulations") =>
        \A k \in 1..Len(ret) : ret[k].quality = ClaimedScore(ret[k])

\* C6: every pivot returned by getSuggestedModulations for a pair of valid
\* scales has an integer quality score from 0 to 10, whichever bonus and
\* penalty conditions match together.
C6_ScoreInRange ==
    Returned("getSuggestedModulations") =>
        \A k \in 1..Len(ret) : ret[k].quality \in 0..10

C6_Witness ==
    /\ Returned("getSuggestedModulations")
    /\ \E k \in 1..Len(ret) :
           /\ ret[k].primaryFunction = "Tonic (I)"
           /\ ret[k].secondaryFunction = "Subdominant (IV)"
           /\ ret[k].quality = 6
    /\ \E k \in 1..Len(ret) :
           /\ ret[k].primaryFunction = "Submediant (vi)"
           /\ ret[k].secondaryFunction = "Supertonic (ii)"
           /\ ret[k].quality = 6

\* The place of a pivot in the 7x7 enumeration: primary chords in the outer
\* loop, secondary chords in the inner loop.
EnumerationIndex(pivot) ==
    degreeIndexOf(PrimaryChords, pivot.primaryKey) * Len(SecondaryChords)
        + degreeIndexOf(SecondaryChords, pivot.secondaryKey)

\* C7: getSuggestedModulations returns the pivots of findPivotChords sorted
\* by score in non-increasing order, pivots of equal score keeping the order
\* of the 7x7 enumeration.
C7_RankedStable ==
    Returned("getSuggestedModulations") =>
        LET found == findPivotChords(call.args.primaryRoot, call.args.primaryScale,
                                     call.args.secondaryRoot, call.args.secondaryScale)
        IN  /\ Len(ret) = Len(found)
            /\ {<<ret[k].primaryKey, ret[k].secondaryKey>> : k \in 1..Len(ret)}
                   = {<<found[k].primaryKey, found[k].secondaryKey>> : k \in 1..Len(found)}
            /\ \A a, b \in 1..Len(ret) :
                   a < b =>
                       /\ ret[a].quality >= ret[b].quality
                       /\ ret[a].quality = ret[b].quality =>
                              EnumerationIndex(ret[a]) < EnumerationIndex(ret[b])

C7_Witness ==
    /\ Returned("getSuggestedModulations")
    /\ \E a, b, c \in 1..Len(ret) :
           /\ a < b /\ b < c
           /\ ret[a].quality > ret[b].quality
           /\ ret[b].quality = ret[c].quality
           /\ EnumerationIndex(ret[a]) > EnumerationIndex(ret[b])
           /\ EnumerationIndex(ret[b]) < EnumerationIndex(ret[c])

(***************************************************************************)
(* Calls with arguments the tables do not have.                            *)
(***************************************************************************)
UnknownArgs ==
    \/ call.args.rootNote \notin DOMAIN NOTE_TO_MIDI
    \/ call.args.scaleType \notin DOMAIN SCALES

\* C11: generateDiatonicChords called with a scale type that is not one of
\* the four, or with a root that is not in the root table, signals an error:
\* it never returns a mapping (with fewer than seven entries or with
\* undefined note names).
C11_UnknownInputSignalsError ==
    (call.op = "generateDiatonicChords" /\ UnknownArgs /\ pc # "called")
        => pc = "threw"

(***************************************************************************)
(* Properties of the related-key finder.                                   *)
(***************************************************************************)
\* The key's root lies offset semitones from rootNote, as pitch classes.
RootAt(key, rootNote, offset) ==
    /\ key.root \in DOMAIN NOTE_TO_MIDI
    /\ NOTE_TO_MIDI[key.root] = (NOTE_TO_MIDI[rootNote] + offset) % 12

HasRelationship(keys, relationship) ==
    \E k \in 1..Len(keys) : keys[k].relationship = relationship

\* C12: for a recognized root and one of the four scale types, the entries
\* of popularity 'high' are, in order: the relative key (3 semitones below
\* as natural minor for a major source, 3 semitones above as major for a
\* minor source), the parallel key (same root, opposite mode), the dominant
\* (7 semitones above) and the subdominant (5 semitones above) in the
\* source's scale type; 'Dominant Minor (v)' and 'Subdominant Minor (iv)'
\* are present exactly when the source is major.
C12_HighTierKeys ==
    (Returned("findRelatedKeys") /\ call.args.scaleType \in ScaleTypes) =>
        LET root == call.args.rootNote
            scaleType == call.args.scaleType
            isMajor == scaleType = "major"
            high == SelectSeq(ret, LAMBDA k : k.popularity = "high")
        IN  /\ Len(high) = IF isMajor THEN 6 ELSE 4
            /\ RootAt(high[1], root, IF isMajor THEN -3 ELSE 3)
            /\ high[1].scaleType = IF isMajor THEN "natural_minor" ELSE "major"
            /\ high[2].root = root
            /\ high[2].scaleType = IF isMajor THEN "natural_minor" ELSE "major"
            /\ RootAt(high[3], root, 7)
            /\ high[3].scaleType = scaleType
            /\ high[3].relationship = "Dominant (V)"
            /\ RootAt(high[4], root, 5)
            /\ high[4].scaleType = scaleType
            /\ high[4].relationship = "Subdominant (IV)"
            /\ HasRelationship(ret, "Dominant Minor (v)") <=> isMajor
            /\ HasRelationship(ret, "Subdominant Minor (iv)") <=> isMajor
            /\ isMajor => /\ high[5].relationship = "Dominant Minor (v)"
                          /\ RootAt(high[5], root, 7)
                          /\ high[6].relationship = "Subdominant Minor (iv)"
                          /\ RootAt(high[6], root, 5)

\* Eb major: the relative key is C natural minor and both minor entries are
\* present.
C12_Witness ==
    /\ Returned("findRelatedKeys")
    /\ call.args = [rootNote |-> "Eb", scaleType |-> "major"]
    /\ ret[1] = [root |-> "C", scaleType |-> "natural_minor",
                 relationship |-> "Relative Minor", popularity |-> "high"]
    /\ ret[5].relationship = "Dominant Minor (v)"
    /\ ret[6].relationship = "Subdominant Minor (iv)"

TierRank(popularity) ==
    CASE popularity = "high" -> 0
      [] popularity = "medium" -> 1
      [] popularity = "low" -> 2
      [] OTHER -> 3

\* C13: in the list findRelatedKeys returns, for every root and scale type,
\* every entry's tier is high, medium or low, every high entry comes before
\* every medium entry and every medium entry before every low entry.
C13_TiersInOrder ==
    Returned("findRelatedKeys") =>
        /\ \A i \in 1..Len(ret) : TierRank(ret[i].popularity) <= 2
        /\ \A i, j \in 1..Len(ret) :
               i < j => TierRank(ret[i].popularity) <= TierRank(ret[j].popularity)

\* A natural minor: four high entries, then three medium, then two low.
C13_Witness ==
    /\ Returned("findRelatedKeys")
    /\ call.args = [rootNote |-> "A", scaleType |-> "natural_minor"]
    /\ [i \in 1..Len(ret) |-> ret[i].popularity]
           = <<"high", "high", "high", "high", "medium", "medium", "medium",
               "low", "low">>

\* The entries whose root getNoteByInterval computed: all but the parallel
\* key, which carries the source root as it was given.
OffsetRoots ==
    {ret[i].root : i \in {k \in 1..Len(ret) :
        ret[k].relationship \notin {"Parallel Minor", "Parallel Major"}}}

\* C14: every related-key root computed from a semitone offset is spelled
\* with the flat name of its pitch class (Db, Eb, Gb, Ab, Bb) and never with
\* a sharp name.
C14_OffsetRootsFlat ==
    Returned("findRelatedKeys") =>
        \A r \in OffsetRoots : \E k \in 1..Len(flatNames) : r = flatNames[k]

\* C14, amended: every related-key root computed from a semitone offset is
\* a natural or one of C#, Eb, F#, Ab, Bb: pitch classes 1 and 6 take the
\* sharp name, pitch classes 3, 8 and 10 the flat name, whatever the source
\* root's own spelling.
C14_OffsetRootsMixedSpelling ==
    Returned("findRelatedKeys") =>
        \A r \in OffsetRoots :
            /\ r \in DOMAIN NOTE_TO_MIDI
            /\ r \notin {"Db", "D#", "Gb", "G#", "A#"}
            /\ Len(r) = 2 => \/ CharAt(r, 2) = "#" /\ NOTE_TO_MIDI[r] \in {1, 6}
                             \/ CharAt(r, 2) = "b" /\ NOTE_TO_MIDI[r] \in {3, 8, 10}

\* From the flat-spelled source Gb major the dominant is C#; from C major
\* all five accidentals of the table occur.
C14_Witness ==
    /\ Returned("findRelatedKeys")
    /\ \/ /\ call.args = [rootNote |-> "Gb", scaleType |-> "major"]
          /\ ret[3].root = "C#"
          /\ ret[1].root = "Eb"
       \/ /\ call.args = [rootNote |-> "C", scaleType |-> "major"]
          /\ {"C#", "Eb", "F#", "Ab", "Bb"} \subseteq OffsetRoots

\* C15: for every root and each of the four scale types findRelatedKeys
\* returns at least 15 related keys.
C15_AtLeastFifteenKeys ==
    (Returned("findRelatedKeys") /\ call.args.scaleType \in ScaleTypes) =>
        Len(ret) >= 15

\* C16: findRelatedKeys called with a scale type that is not one of the four
\* is rejected with an error and returns no list, not even a partial one.
C16_UnknownScaleRejected ==
    (call.op = "findRelatedKeys" /\ call.args.scaleType \notin ScaleTypes
        /\ pc # "called") => pc = "threw"

(***************************************************************************)
(* Properties of chord degrees and pitch classes.                          *)
(***************************************************************************)
\* The label of an interval of 0..11 semitones above the chord root.
ClaimedDegree(interval) ==
    CASE interval = 0 -> "1"
      [] interval = 3 -> "b3"
      [] interval = 4 -> "3"
      [] interval = 6 -> "b5"
      [] interval = 7 -> "5"
      [] interval = 8 -> "#5"
      [] interval = 9 -> "6"
      [] interval = 10 -> "b7"
      [] interval = 11 -> "7"
      [] interval \in {1, 2, 5} -> "?"

\* C17: for all pitches, getChordDegree(note, chord) is the table's label of
\* the interval (pc(note) - pc(chord[0])) mod 12, the sentinel '?' for the
\* intervals 1, 2 and 5: the root itself gives '1', a tritone above 'b5', a
\* semitone above '?'.
C17_DegreeByTable ==
    Returned("getChordDegree") =>
        ret = ClaimedDegree((call.args.noteMidi
                                - call.args.chordMidiNotes[1].v) % 12)

\* C18: the pitch class used by getNoteName, midiToNoteName and
\* getChordDegree is pitch mod 12 in 0..11 for every integer pitch, negative
\* ones too: a pitch gets the note letter and the degree label of the pitch
\* of 0..11 it differs from by a multiple of 12.
C18_PitchClassFloorMod ==
    /\ Returned("getNoteName") =>
           ret = getNoteName(call.args.midiClass % 12, call.args.preferFlats)
    /\ Returned("midiToNoteName") =>
           LET letter == getNoteName(call.args.midi % 12, call.args.useFlats)
           IN  SubSeq(ret, 1, Len(letter)) = letter
    /\ Returned("getChordDegree") =>
           ret = getChordDegree(call.args.noteMidi % 12,
                                <<Num(call.args.chordMidiNotes[1].v % 12)>>)

(***************************************************************************)
(* Note names without a pitch.                                             *)
(***************************************************************************)
HasPitch(noteName) == noteToMidiOf(noteName).t = "num"

\* C19: a string outside the note-name grammar makes noteToMidi produce an
\* error outcome that reaches the caller unchanged: the pivot comparison
\* never turns it into a pitch class, so a chord none of whose notes has a
\* pitch has no pitch class, and no pivot is made of notes without a pitch.
C19_MalformedStaysError ==
    Returned("findPivotChords") =>
        /\ \A e \in {PrimaryChords[k] : k \in 1..Len(PrimaryChords)}
                   \cup {SecondaryChords[k] : k \in 1..Len(SecondaryChords)} :
               (\A n \in 1..Len(e.chord.notes) : ~HasPitch(e.chord.notes[n]))
                   => \A x \in normalizeChordNotes(e.chord) : x.t # "num"
        /\ \A k \in 1..Len(ret) :
               \A n \in 1..Len(ret[k].notes) : HasPitch(ret[k].notes[n])

(***************************************************************************)
(* Functional labels of the pivots.                                        *)
(***************************************************************************)
\* The degree (from 1) at which the chord symbol sits in a chord set.
DegreeOfKey(entries, key) ==
    CHOOSE d \in 1..Len(entries) : entries[d].key = key

\* The function name of a degree, by the column of the scale's mode.
ClaimedFunctionName(d, scaleType) ==
    CASE d = 1 -> "Tonic"
      [] d = 2 -> "Supertonic"
      [] d = 3 -> "Mediant"
      [] d = 4 -> "Subdominant"
      [] d = 5 -> "Dominant"
      [] d = 6 -> "Submediant"
      [] d = 7 -> IF scaleType = "major" THEN "Leading Tone" ELSE "Subtonic"

\* label is the name-table entry of degree d in the column of scaleType.
IsLabelOf(label, d, scaleType) ==
    /\ label = IF scaleType = "major" THEN degreeNames[d].major
               ELSE degreeNames[d].minor
    /\ LET name == ClaimedFunctionName(d, scaleType)
       IN  SubSeq(label, 1, Len(name) + 2) = name \o " ("

\* C20: for every pivot findPivotChords returns, the functional label of
\* each side is the name-table entry of the index at which that side's
\* chord symbol sits in its own scale's generated chord set, from the major
\* column exactly when that scale's type is 'major'; the bare chord symbol
\* is never the label.
C20_LabelsByOwnScaleIndex ==
    Returned("findPivotChords") =>
        LET A == PrimaryChords
            B == SecondaryChords
        IN  \A k \in 1..Len(ret) :
                /\ ret[k].primaryKey \in KeysOf(A)
                /\ ret[k].secondaryKey \in KeysOf(B)
                /\ IsLabelOf(ret[k].primaryFunction,
                             DegreeOfKey(A, ret[k].primaryKey),
                             call.args.primaryScale)
                /\ IsLabelOf(ret[k].secondaryFunction,
                             DegreeOfKey(B, ret[k].secondaryKey),
                             call.args.secondaryScale)
                /\ ret[k].primaryFunction # ret[k].primaryKey
                /\ ret[k].secondaryFunction # ret[k].secondaryKey

\* C major against A natural minor: Cmaj7 is the tonic of the one and the
\* mediant of the other, Bm7b5 the leading tone and the supertonic.
C20_Witness ==
    /\ Returned("findPivotChords")
    /\ call.args = [primaryRoot |-> "C", primaryScale |-> "major",
                    secondaryRoot |-> "A", secondaryScale |-> "natural_minor"]
    /\ Len(ret) = 7
    /\ ret[1].primaryKey = "Cmaj7"
    /\ ret[1].primaryFunction = "Tonic (I)"
    /\ ret[1].secondaryFunction = "Mediant (III)"
    /\ ret[7].primaryKey = "Bm7b5"
    /\ ret[7].primaryFunction = "Leading Tone (vii°)"
    /\ ret[7].secondaryFunction = "Supertonic (ii°)"

(***************************************************************************)
(* How many pivots two scales have.                                        *)
(***************************************************************************)
\* C21: findPivotChords('C','major','G','major') returns a list that is not
\* empty and has fewer than 7 pivots, and every returned chord belongs to
\* both generated chord sets.
C21_FifthApartSharesSome ==
    (Returned("findPivotChords")
        /\ call.args = [primaryRoot |-> "C", primaryScale |-> "major",
                        secondaryRoot |-> "G", secondaryScale |-> "major"]) =>
        LET A == PrimaryChords
            B == SecondaryChords
        IN  /\ Len(ret) > 0
            /\ Len(ret) < 7
            /\ \A k \in 1..Len(ret) :
                   /\ \E i \in 1..Len(A) :
                          /\ A[i].key = ret[k].primaryKey
                          /\ A[i].chord.notes = ret[k].notes
                   /\ \E j \in 1..Len(B) :
                          /\ B[j].key = ret[k].secondaryKey
                          /\ ChordPcs(B[j].chord) = ChordPcs([notes |-> ret[k].notes])

\* C major and G major share Cmaj7, Em7 and Am7.
C21_Witness ==
    /\ Returned("findPivotChords")
    /\ call.args = [primaryRoot |-> "C", primaryScale |-> "major",
                    secondaryRoot |-> "G", secondaryScale |-> "major"]
    /\ [k \in 1..Len(ret) |-> ret[k].chordName] = <<"Cmaj7", "Em7", "Am7">>

\* C29: for every two valid (root, scaleType) pairs findPivotChords returns
\* at most 7 pivots, in which each chord of the first scale and each chord
\* of the second scale appears at most once; a scale compared with itself
\* gives exactly 7 pivots, each pairing a chord with itself.
C29_AtMostSevenEachOnce ==
    Returned("findPivotChords") =>
        /\ Len(ret) <= 7
        /\ \A k, l \in 1..Len(ret) :
               k # l => /\ ret[k].primaryKey # ret[l].primaryKey
                        /\ ret[k].secondaryKey # ret[l].secondaryKey
        /\ (/\ call.args.primaryRoot = call.args.secondaryRoot
            /\ call.args.primaryScale = call.args.secondaryScale) =>
               /\ Len(ret) = 7
               /\ \A k \in 1..Len(ret) :
                      /\ ret[k].primaryKey = ret[k].secondaryKey
                      /\ ret[k].primaryKey = PrimaryChords[k].key

\* A harmonic minor against itself: seven pivots, the diminished seventh on
\* G# among them.
C29_Witness ==
    /\ Returned("findPivotChords")
    /\ call.args = [primaryRoot |-> "A", primaryScale |-> "harmonic_minor",
                    secondaryRoot |-> "A", secondaryScale |-> "harmonic_minor"]
    /\ Len(ret) = 7
    /\ ret[7].primaryKey = ret[7].secondaryKey
    /\ ret[7].primaryFunction = "Subtonic (VII)"

(***************************************************************************)
(* Degree labels of the chords the generator makes.                        *)
(***************************************************************************)
\* The pitch of a fretboard position in standard tuning, high E first.
FretboardPitch(string, fret) ==
    <<64, 59, 55, 50, 45, 40>>[string + 1] + fret

\* C30: for every chord generateDiatonicChords makes for a recognized root
\* and scale type, the degree of each of its 4 notes relative to the chord's
\* own notes is never the sentinel '?': the first note is labelled '1' and
\* the 4 notes have pairwise different labels, wherever on the fretboard
\* they are.
C30_GeneratedChordsFullyLabelled ==
    Returned("findGuitarChordShape") =>
        LET notes == call.args.noteNames
            pcs == [i \in 1..Len(notes) |-> SpelledPitchClass(notes[i])]
            shape == ret
        IN  /\ Len(notes) = 4
            /\ \A i \in 1..4 : \E k \in 1..Len(shape) :
                   FretboardPitch(shape[k].string, shape[k].fret) % 12 = pcs[i]
            /\ \A k \in 1..Len(shape) :
                   /\ shape[k].degree # "?"
                   /\ FretboardPitch(shape[k].string, shape[k].fret) % 12 = pcs[1]
                          <=> shape[k].degree = "1"
            /\ \A k, l \in 1..Len(shape) :
                   shape[k].degree = shape[l].degree
                       => (FretboardPitch(shape[k].string, shape[k].fret)
                              - FretboardPitch(shape[l].string, shape[l].fret)) % 12 = 0
            /\ Cardinality({shape[k].degree : k \in 1..Len(shape)}) = 4

\* The diminished seventh on G# of A harmonic minor: its open-string and
\* first-fret tones are labelled b5, 6, 1 and b3.
C30_Witness ==
    /\ Returned("findGuitarChordShape")
    /\ call.args.noteNames = <<"Ab4", "B5", "D5", "F5">>
    /\ \E k \in 1..Len(ret) : ret[k].degree = "6"
    /\ \E k \in 1..Len(ret) : ret[k] = [string |-> 1, fret |-> 0, degree |-> "b3"]

(***************************************************************************)
(* Properties of the state manager.                                        *)
(***************************************************************************)
\* C23: after any setScale and setChord calls the manager's chord set is
\* generateDiatonicChords(currentRoot, currentScale) and getCurrentChord() is
\* a chord of that set; right after setScale the current chord is the chord
\* on the first degree of the new scale.
C23_ChordSetFollowsScale ==
    LET chords == manager.diatonicChords
        first == diatonicChord(manager.currentRoot, manager.currentScale, 0)
    IN  /\ chords = generateDiatonicChords(manager.currentRoot, manager.currentScale)
        /\ \E i \in 1..Len(chords) : chords[i].chord = getCurrentChord(manager)
        /\ call.op = "setScale" =>
               /\ manager.currentChord = first.key
               /\ getCurrentChord(manager) = first.chord

\* G major selected, then its dominant chord.
C23_Witness ==
    /\ call.op = "setChord"
    /\ manager.currentRoot = "G" /\ manager.currentScale = "major"
    /\ manager.currentChord = "D7"
    /\ getCurrentChord(manager).roman = "V7"

PairwiseDistinct(seq) ==
    \A i, j \in 1..Len(seq) : i # j => seq[i] # seq[j]

\* C28: the overlay scales in the list have pairwise distinct ids, and no id
\* addOverlayScale returned is returned a second time, whatever was removed
\* or cleared in between.
C28_OverlayIdsUnique ==
    /\ PairwiseDistinct([i \in 1..Len(manager.overlayScales) |->
                            manager.overlayScales[i].id])
    /\ PairwiseDistinct(returnedIds)

\* An overlay added after the first one was taken away again.
C28_Witness ==
    /\ call.op = "addOverlayScale"
    /\ Len(returnedIds) = 2
    /\ Len(manager.overlayScales) = 1
    /\ manager.overlayScales[1].id = ret

(***************************************************************************)
(* Properties of the progress storage.                                     *)
(***************************************************************************)
\* What is stored, the defaults when nothing is.
Stored == loadStats(localStorage)

AnswerIsRight ==
    {k % 12 : k \in gameState.userSelectedNotes} = ChordPcs(gameState.currentChord[1])

\* C22: each checkAnswer raises attempts by 1; a correct answer adds
\* 10 + 2 * (streak before) to the score and 1 to streak and correctAnswers;
\* a wrong one sets streak to 0 and leaves score and correctAnswers; and
\* always 0 <= streak <= bestStreak <= correctAnswers <= attempts and
\* score >= 10 * correctAnswers.
C22_ScoringRules ==
    /\ [](/\ 0 <= gameState.streak
          /\ gameState.streak <= gameState.bestStreak
          /\ gameState.bestStreak <= gameState.correctAnswers
          /\ gameState.correctAnswers <= gameState.attempts
          /\ gameState.score >= 10 * gameState.correctAnswers)
    /\ [][call'.op = "checkAnswer" =>
             /\ gameState'.attempts = gameState.attempts + 1
             /\ IF AnswerIsRight
                THEN /\ gameState'.score =
                            gameState.score + 10 + 2 * gameState.streak
                     /\ gameState'.streak = gameState.streak + 1
                     /\ gameState'.correctAnswers = gameState.correctAnswers + 1
                ELSE /\ gameState'.streak = 0
                     /\ gameState'.score = gameState.score
                     /\ gameState'.correctAnswers = gameState.correctAnswers]_vars

\* Three correct answers in a row on extended chords: 10 + 12 + 14 points.
C22_Witness ==
    /\ call.op = "checkAnswer"
    /\ gameState.difficulty = "advanced"
    /\ gameState.attempts = 3 /\ gameState.streak = 3
    /\ gameState.score = 36

\* The events that run loadNewChallenge on a loaded challenge.
LoadEvents == {"nextChallenge", "difficultySelect.change", "scaleSelect.change"}

\* C24: whenever loadNewChallenge runs on a loaded challenge (next challenge,
\* difficulty change, scale change), the key it picks differs from the key
\* that was current before.
C24_NeverSameChordTwice ==
    [][call'.op \in LoadEvents =>
          gameState'.currentChordKey # gameState.currentChordKey]_vars

\* A scale change from C major to A natural minor, whose keys are the same
\* seven: the challenge moved from Am7 to another chord.
C24_Witness ==
    /\ call.op = "scaleSelect.change"
    /\ gameState.scale = "A" /\ gameState.scaleType = "natural_minor"
    /\ gameState.currentChordKey = "Cmaj7"
    /\ gameState.difficulty = "advanced"
    /\ Len(gameState.currentChord[1].notes) = 6

\* C26: from empty storage, whenever the last answer of the session was
\* correct, the stored totals equal the session's counters.
C26_TotalsEqualSession ==
    (gameState.attempts > 0 /\ gameState.streak > 0) =>
        /\ Stored.totalAttempts = gameState.attempts
        /\ Stored.totalCorrect = gameState.correctAnswers
        /\ Stored.totalScore = gameState.score

\* C27: between two loadNewChallenge calls correctAnswers and score rise at
\* most once.
C27_ScoredOncePerChallenge == scoredOnChallenge <= 1

====
